---- MODULE Spec2Model ----
(***************************************************************************)
(* State-machine model of the MCP protocol core of bare-mcp                *)
(* (src/index.js, createMCPServer): the tool registry, the request         *)
(* dispatcher (handleRequest), the activity hook and the subscription      *)
(* ledger.                                                                 *)
(*                                                                         *)
(* JavaScript values are modelled as tagged records.  Every await of the   *)
(* code is a suspension point: a tools/call that reached                   *)
(* `await tool.execute(validated)` sits in `inflight` until the handler    *)
(* settles (HandlerReturn / HandlerThrow); everything between two          *)
(* suspension points is one atomic action.                                 *)
(***************************************************************************)
EXTENDS Integers, Sequences, FiniteSets, Bags, TLC

\* ------------------------------------------------------------------------
\* Bounds of the model
\* ------------------------------------------------------------------------
MaxClients == 2                       \* connections a transport accepts in a run
MaxBulk == 2                          \* definitions in the array of a bulk registration
MaxInflight == 2                      \* dispatches suspended at an await at a time

ToolNames == {"add"}                  \* names a tool can be registered under
RequestNames == ToolNames \cup {"nonexistent"}
Handlers == {"h1", "h2"}              \* identities of execute functions
Uris == {"data://x", "data://y"}
Subscribers == {"client-1", "client-2"}

\* ------------------------------------------------------------------------
\* Error codes and the typed protocol error
\* ------------------------------------------------------------------------
ErrorCode ==
  [ PARSE_ERROR        |-> -32700,
    INVALID_REQUEST    |-> -32600,
    METHOD_NOT_FOUND   |-> -32601,
    INVALID_PARAMS     |-> -32602,
    INTERNAL_ERROR     |-> -32603,
    RESOURCE_NOT_FOUND |-> -32002 ]

\* `data` of an error: undefined, an opaque object, or {issues: [...]}
NoData == [kind |-> "undefined", token |-> "", issues |-> << >>]
ObjData(tok) == [kind |-> "object", token |-> tok, issues |-> << >>]
IssuesData(issues) == [kind |-> "issues", token |-> "", issues |-> issues]

\* An exception value.  cls is the class (instanceof), name the .name
\* property; code is 0 where the exception has no code property.
MCPError(code, message, data) ==
  [cls |-> "MCPError", name |-> "MCPError", code |-> code,
   message |-> message, data |-> data, issues |-> << >>]

PlainError(message) ==
  [cls |-> "Error", name |-> "Error", code |-> 0,
   message |-> message, data |-> NoData, issues |-> << >>]

\* ------------------------------------------------------------------------
\* The validator (zod): tool.parameters.parse(args || {})
\* ------------------------------------------------------------------------
\* Argument objects: name is the kind of the `name` property ("none" when the
\* key is missing), extra tells whether an unknown key is present.
NoArgs == [present |-> FALSE, name |-> "none", extra |-> FALSE]   \* undefined
EmptyArgs == [present |-> TRUE, name |-> "none", extra |-> FALSE] \* {}
Args == {NoArgs,
         [present |-> TRUE, name |-> "str", extra |-> TRUE],
         [present |-> TRUE, name |-> "num", extra |-> FALSE]}

\* Schemas: "empty" is z.object({}), "name" is z.object({name: z.string()})
Schemas == {"empty", "name"}

Issue(path, message) == [path |-> path, message |-> message]

ZodMessage(issues) ==
  IF issues = << >> THEN "[]" ELSE "[" \o issues[1].message \o "]"

ZodError(issues) ==
  [cls |-> "ZodError", name |-> "ZodError", code |-> 0,
   message |-> ZodMessage(issues), data |-> NoData, issues |-> issues]

\* args || {}
ArgsOrEmpty(args) == IF args.present THEN args ELSE EmptyArgs

\* parse: an object schema strips unknown keys and checks the declared ones
Parse(schema, a) ==
  CASE schema = "empty" ->
         [ok |-> TRUE, value |-> EmptyArgs, issues |-> << >>]
    [] schema = "name" /\ a.name = "str" ->
         [ok |-> TRUE,
          value |-> [present |-> TRUE, name |-> "str", extra |-> FALSE],
          issues |-> << >>]
    [] schema = "name" /\ a.name = "num" ->
         [ok |-> FALSE, value |-> a,
          issues |-> << Issue(<<"name">>, "Expected string, received number") >>]
    [] OTHER ->
         [ok |-> FALSE, value |-> a,
          issues |-> << Issue(<<"name">>, "Required") >>]

\* ------------------------------------------------------------------------
\* JavaScript values returned by tool handlers
\* ------------------------------------------------------------------------
TextItem(text) == [type |-> "text", text |-> text]

JSString(s) ==
  [t |-> "string", s |-> s, content |-> "absent", items |-> << >>, isError |-> "unset"]
JSNumber(s) ==
  [t |-> "number", s |-> s, content |-> "absent", items |-> << >>, isError |-> "unset"]
JSUndefined ==
  [t |-> "undefined", s |-> "", content |-> "absent", items |-> << >>, isError |-> "unset"]
JSNull ==
  [t |-> "null", s |-> "", content |-> "absent", items |-> << >>, isError |-> "unset"]
JSArray(items) ==
  [t |-> "array", s |-> "", content |-> "absent", items |-> items, isError |-> "unset"]
\* {content: [...], isError?}
JSResult(items, isError) ==
  [t |-> "object", s |-> "", content |-> "array", items |-> items, isError |-> isError]
\* {content: "<s>"}: content is a string ("" included), not an array
JSContentString(s) ==
  [t |-> "object", s |-> s, content |-> "string", items |-> << >>, isError |-> "unset"]
\* an object without a content property, e.g. {sum: 5}
JSObject(s) ==
  [t |-> "object", s |-> s, content |-> "absent", items |-> << >>, isError |-> "unset"]

HandlerResults ==
  { JSString("Hello"), JSString(""), JSNumber("42"), JSUndefined, JSNull,
    JSArray(<< >>), JSArray(<< TextItem("Hello") >>),
    JSResult(<< TextItem("Something went wrong") >>, "true"),
    JSResult(<< >>, "unset"),
    JSContentString("raw"), JSContentString(""),
    JSObject("sum") }

HandlerExceptions ==
  { MCPError(-32001, "Rate limit exceeded", ObjData("retryAfter")),
    MCPError(ErrorCode.INVALID_PARAMS, "User not found", NoData),
    PlainError("Intentional failure"),
    ZodError(<< Issue(<<"row", "id">>, "Invalid") >>) }

\* JSON.stringify(value) for the values above.  JSON.stringify(undefined)
\* is undefined, not a string: UndefinedText stands for it.
UndefinedText == "<undefined>"

JSONStringify(v) ==
  CASE v.t = "string"    -> "\"" \o v.s \o "\""
    [] v.t = "number"    -> v.s
    [] v.t = "null"      -> "null"
    [] v.t = "undefined" -> UndefinedText
    [] v.t = "array"     -> IF v.items = << >> THEN "[]" ELSE "[...]"
    [] v.content = "string" -> "{\"content\":\"" \o v.s \o "\"}"
    [] v.content = "array"  -> "{\"content\":[...]}"
    [] OTHER             -> "{\"" \o v.s \o "\":5}"

\* JavaScript truthiness of a value (`result && ...`)
Truthy(v) ==
  CASE v.t = "string"    -> v.s # ""
    [] v.t = "number"    -> v.s # "0"
    [] v.t = "null"      -> FALSE
    [] v.t = "undefined" -> FALSE
    [] OTHER             -> TRUE

\* typeof value === 'object' (true of null and of arrays as well)
TypeofObject(v) == v.t \in {"object", "array", "null"}

\* truthiness of result.content: an array (even empty) and a non-empty
\* string are truthy; a missing property and "" are falsy
ContentTruthy(v) ==
  \/ v.content = "array"
  \/ v.content = "string" /\ v.s # ""

\* tools/call result formats (Array.isArray / result.content / wrap)
FormatResult(result) ==
  IF result.t = "array"
  THEN JSResult(result.items, "unset")
  ELSE IF Truthy(result) /\ TypeofObject(result) /\ ContentTruthy(result)
       THEN result
       ELSE LET text == IF result.t = "string" THEN result.s
                        ELSE JSONStringify(result)
            IN JSResult(<< TextItem(text) >>, "unset")

\* i.path.join('.')
RECURSIVE JoinPath(_)
JoinPath(path) ==
  IF path = << >> THEN ""
  ELSE IF Len(path) = 1 THEN path[1]
       ELSE path[1] \o "." \o JoinPath(Tail(path))

\* err.issues.map(i => `${i.path.join('.')}: ${i.message}`).join(', ')
RECURSIVE IssuesMessage(_)
IssuesMessage(issues) ==
  IF issues = << >> THEN ""
  ELSE LET head == JoinPath(issues[1].path) \o ": " \o issues[1].message
       IN IF Len(issues) = 1 THEN head
          ELSE head \o ", " \o IssuesMessage(Tail(issues))

\* ------------------------------------------------------------------------
\* State
\* ------------------------------------------------------------------------
\* The targets argument of the notification callback: null, or a set of
\* subscriber ids
Broadcast == [null |-> TRUE, ids |-> {}]

Targeted(ids) == [null |-> FALSE, ids |-> ids]

\* the arguments of a notifying call; none were given outside such a call
NoNotification == [method |-> "", params |-> "", targets |-> Broadcast]

Given(method, params, targets) ==
  [method |-> method, params |-> params, targets |-> targets]

VARIABLES
  stdin,          \* Bare stdio transport: the bytes that process.stdin has
                  \* delivered (received) and those still to come (pending)
  buffer,         \* Bare stdio transport: the text after the last newline
  processed,      \* history: the lines processLine was called with, how many
                  \* of its calls have still to write and how many have written
  options,        \* the options createMCPServer was called with
  tools,          \* Map name -> tool definition
  resources,      \* Map uri -> resource definition
  resourceTemplates, \* Map uriTemplate -> template definition, in insertion order
  onActivity,     \* the installed activity callback
  subscriptions,  \* Map uri -> Set of subscriber ids
  inflight,       \* bag of the dispatches suspended at an await (handler or reader)
  last,           \* history: the most recent operation, the ledger before it,
                  \* the dispatch it completed, if any, and the invocations of
                  \* the notification callback it made
  onNotification, \* the installed notification callback
  onClientNotification, \* the installed client-notification callback, if any
  transport,      \* the HTTP transport created for the server, if any
  wsClients,      \* Node HTTP transport: Map ws -> {id, subscriptions}
  sseClients,     \* HTTP transports: Map res -> {id}
  clientIdCounter,\* generateClientId's counter
  requested,      \* history: client id -> the URIs the client subscribed to
                  \* over its own connection and did not unsubscribe from
  activityLog,    \* HTTP transports: the activity list, most recent first; each
                  \* element is the entry and, as history, its number among
                  \* the entries recorded since the list was last cleared
  requestCount,   \* HTTP transports: entries recorded since the last clear
  wrote           \* history: the JSON-RPC responses that the transport wrote
                  \* in the most recent step

connectionVars == << transport, wsClients, sseClients, clientIdCounter, requested >>

activityVars == << activityLog, requestCount >>

transportVars == << connectionVars, activityVars >>

stdinVars == << stdin, buffer, processed >>

vars == << stdinVars, options, tools, resources, resourceTemplates, onActivity, subscriptions,
           inflight, last, onNotification, onClientNotification, transportVars, wrote >>

\* options of createMCPServer: "" stands for a key that is not given
NoOptions == [name |-> "", version |-> "", protocolVersion |-> ""]

\* the destructuring defaults of createMCPServer
ServerName == IF options.name = "" THEN "mcp-server" ELSE options.name
ServerVersion == IF options.version = "" THEN "1.0.0" ELSE options.version
ProtocolVersion ==
  IF options.protocolVersion = "" THEN "2025-11-25" ELSE options.protocolVersion

\* Activity callbacks: the default `() => {}` and one that throws
ActivityCallbacks == {"noop", "raise"}
CallbackError == PlainError("activity callback failed")
CallbackRaises(cb) == cb = "raise"

NoTool == [name |-> "", parameters |-> "none", execute |-> "none"]
NoResource ==
  [uri |-> "", name |-> "", mimeType |-> "", text |-> "", read |-> "none",
   annotations |-> "none"]
NoTemplate ==
  [uriTemplate |-> "", name |-> "", mimeType |-> "", read |-> "none",
   annotations |-> "none"]
NoOutcome == [kind |-> "none", value |-> JSUndefined, error |-> PlainError("")]
Returned(v) == [kind |-> "result", value |-> v, error |-> PlainError("")]
Threw(e) == [kind |-> "error", value |-> JSUndefined, error |-> e]
EmptyResult == JSObject("")          \* the result {}

\* A dispatch: its parameters, the tool or resource it bound, what it did so
\* far (events, the arguments of each handler invocation, how the awaited
\* handler settled, the entries handed to the activity callback) and its
\* outcome.
NoCall ==
  [ method |-> "", name |-> "", args |-> NoArgs, uri |-> "", subscriberId |-> "",
    tool |-> NoTool, resource |-> NoResource,
    template |-> NoTemplate, params |-> << >>, invokedWith |-> << >>,
    settled |-> NoOutcome, events |-> << >>, handed |-> << >>,
    outcome |-> NoOutcome,
    \* locals of the POST /message handler that awaits the dispatch: the id
    \* of the SSE stream it found for the sessionId ("" for none) and the id
    \* of the message ("none" for a message without one)
    session |-> "", requestId |-> "none" ]

\* the entry recordActivity builds; error is "" when the key is omitted
ActivityEntry(toolName, success, error) ==
  [tool |-> toolName, success |-> success, error |-> error]

\* history record of an operation that is not a completed dispatch
Op(op, uri, id, threw) ==
  [op |-> op, uri |-> uri, id |-> id, threw |-> threw,
   before |-> subscriptions, call |-> NoCall, delivered |-> << >>, written |-> {},
   given |-> NoNotification, clientCalls |-> << >>,
   writes |-> << >>, subscribers |-> {}]

\* history record of a dispatch that completed as call c
Completed(c) ==
  [op |-> "dispatch", uri |-> c.uri, id |-> c.subscriberId,
   threw |-> c.outcome.kind = "error", before |-> subscriptions, call |-> c,
   delivered |-> << >>, written |-> {},
   given |-> NoNotification, clientCalls |-> << >>,
   writes |-> << >>, subscribers |-> {}]

\* createMCPServer(options): what it sets up whatever the options are
Constructed ==
  /\ tools = << >>
  /\ resources = << >>
  /\ onActivity = "noop"
  /\ subscriptions = << >>
  /\ inflight = EmptyBag
  /\ last = [op |-> "init", uri |-> "", id |-> "", threw |-> FALSE,
             before |-> << >>, call |-> NoCall, delivered |-> << >>, written |-> {},
             given |-> NoNotification, clientCalls |-> << >>,
   writes |-> << >>, subscribers |-> {}]
  /\ resourceTemplates = << >>
  /\ onNotification = "default"
  /\ onClientNotification = "null"
  /\ transport = "none"
  /\ wsClients = << >>
  /\ sseClients = {}
  /\ clientIdCounter = 0
  /\ requested = << >>
  /\ activityLog = << >>
  /\ requestCount = 0
  /\ wrote = << >>

\* createMCPServer()
\* the standard input before a transport reads it
NoStdin == [received |-> << >>, pending |-> << >>]

NoLines == [lines |-> << >>, awaiting |-> 0, written |-> 0]

StdinIdle == stdin = NoStdin /\ buffer = << >> /\ processed = NoLines

Init == Constructed /\ options = NoOptions /\ StdinIdle

\* ------------------------------------------------------------------------
\* Tool registry
\* ------------------------------------------------------------------------
\* map.set(key, value)
MapSet(map, key, value) ==
  [k \in DOMAIN map \cup {key} |-> IF k = key THEN value ELSE map[k]]

\* map.delete(key)
MapDelete(map, key) == [k \in DOMAIN map \ {key} |-> map[k]]

\* variant: a re-registration without a schema keeps the schema of the
\* definition it replaces
AddToolMerging(name, parameters, execute) ==
  /\ IF name = "" \/ execute = "none"
     THEN /\ UNCHANGED tools
          /\ last' = Op("addTool", "", "", TRUE)
     ELSE /\ tools' = MapSet(tools, name,
                        [name |-> name,
                         parameters |-> IF parameters # "none" THEN parameters
                                        ELSE IF name \in DOMAIN tools
                                             THEN tools[name].parameters
                                             ELSE "empty",
                         execute |-> execute])
          /\ last' = Op("addTool", "", "", FALSE)
  /\ UNCHANGED << stdinVars, options, resources, resourceTemplates, onActivity, subscriptions,
                  inflight, onNotification, onClientNotification, transportVars >>
  /\ wrote' = << >>
\* addTool(tool): name "" and execute "none" stand for a missing property,
\* parameters "none" for a missing schema (defaults to z.object({}))
AddTool(name, parameters, execute) ==
  /\ IF name = "" \/ execute = "none"
     THEN /\ UNCHANGED tools
          /\ last' = Op("addTool", "", "", TRUE)
     ELSE /\ tools' = MapSet(tools, name,
                        [name |-> name,
                         parameters |-> IF parameters = "none" THEN "empty"
                                        ELSE parameters,
                         execute |-> execute])
          /\ last' = Op("addTool", "", "", FALSE)
  /\ UNCHANGED << stdinVars, options, resources, resourceTemplates, onActivity, subscriptions,
                  inflight, onNotification, onClientNotification, transportVars >>
  /\ wrote' = << >>

\* addTool(tool) applied to the tool map: {map, threw}
AddToolTo(map, tool) ==
  IF tool.name = "" \/ tool.execute = "none"
  THEN [map |-> map, threw |-> TRUE]
  ELSE [map |-> MapSet(map, tool.name,
                       [name |-> tool.name,
                        parameters |-> IF tool.parameters = "none" THEN "empty"
                                       ELSE tool.parameters,
                        execute |-> tool.execute]),
        threw |-> FALSE]

\* the loop of addTools from element i on: the first addTool that throws
\* ends it
RECURSIVE AddToolsFrom(_, _, _)
AddToolsFrom(map, toolArray, i) ==
  IF i > Len(toolArray) THEN [map |-> map, threw |-> FALSE]
  ELSE LET added == AddToolTo(map, toolArray[i])
       IN IF added.threw THEN added
          ELSE AddToolsFrom(added.map, toolArray, i + 1)

\* addTools(toolArray)
AddTools(toolArray) ==
  /\ tools' = AddToolsFrom(tools, toolArray, 1).map
  /\ last' = Op("addTools", "", "", AddToolsFrom(tools, toolArray, 1).threw)
  /\ UNCHANGED << stdinVars, options, resources, resourceTemplates, onActivity, subscriptions,
                  inflight, onNotification, onClientNotification, transportVars >>
  /\ wrote' = << >>

\* ------------------------------------------------------------------------
\* Activity hook
\* ------------------------------------------------------------------------
SetActivityCallback(cb) ==
  /\ onActivity' = cb
  /\ last' = Op("setActivityCallback", "", "", FALSE)
  /\ UNCHANGED << stdinVars, options, tools, resources, resourceTemplates, subscriptions, inflight, onNotification, onClientNotification, transportVars >>
  /\ wrote' = << >>

\* recordActivity(toolName, success, error) on behalf of call c: the entry is
\* handed to the installed callback; `raised` tells whether the callback threw
RecordActivity(c, success, error) ==
  [ call |-> [c EXCEPT !.handed = Append(@, ActivityEntry(c.name, success, error)),
                       !.events = Append(@, "activity")],
    raised |-> CallbackRaises(onActivity) ]

\* the cap of the activity list of the HTTP transports
ActivityLogCap == 100

\* variant: beyond the cap the entry just recorded is dropped
HandleActivityDropsNewest(log, count, entry) ==
  LET unshifted == << [entry |-> entry, seq |-> count + 1] >> \o log
  IN [log |-> IF Len(unshifted) > ActivityLogCap
              THEN SubSeq(unshifted, 2, Len(unshifted)) ELSE unshifted,
      count |-> count + 1]

\* handleActivity(entry) of the HTTP transports on the list log and the
\* counter count: unshift, pop beyond the cap, requestCount++
HandleActivity(log, count, entry) ==
  LET unshifted == << [entry |-> entry, seq |-> count + 1] >> \o log
  IN [log |-> IF Len(unshifted) > ActivityLogCap
              THEN SubSeq(unshifted, 1, Len(unshifted) - 1) ELSE unshifted,
      count |-> count + 1]

\* handleActivity applied to the entries from the i-th on
RECURSIVE HandleActivities(_, _, _, _)
HandleActivities(log, count, entries, i) ==
  IF i > Len(entries) THEN [log |-> log, count |-> count]
  ELSE LET handled == HandleActivity(log, count, entries[i])
       IN HandleActivities(handled.log, handled.count, entries, i + 1)

\* what the installed activity callback does with the entries that the
\* dispatch completed in this step handed to it: only the callback of an
\* HTTP transport keeps them
ActivityHandled ==
  LET handled == HandleActivities(activityLog, requestCount,
                                  last'.call.handed, 1)
  IN IF onActivity = "handleActivity"
     THEN /\ activityLog' = handled.log
          /\ requestCount' = handled.count
     ELSE UNCHANGED activityVars

\* ------------------------------------------------------------------------
\* tools/call
\* ------------------------------------------------------------------------
\* variant: the handler receives the raw arguments instead of the parsed ones
HandlerInputRaw(validated, args) == args

\* the argument tool.execute is called with
HandlerInput(validated, args) == validated

\* the error the catch block throws for err, after recordActivity returned
CatchError(err) ==
  IF err.name = "ZodError"
  THEN MCPError(ErrorCode.INVALID_PARAMS, IssuesMessage(err.issues),
                IssuesData(err.issues))
  ELSE IF err.cls = "MCPError"
       THEN err
       ELSE MCPError(ErrorCode.INTERNAL_ERROR, err.message, NoData)

\* catch (err) { recordActivity(toolName, false, err.message); ... throw }
Catch(c, err) ==
  LET r == RecordActivity(c, FALSE, err.message)
  IN [r.call EXCEPT !.outcome = IF r.raised THEN Threw(CallbackError)
                                ELSE Threw(CatchError(err))]

\* the unknown-tool branch: recordActivity, then throw INVALID_PARAMS
UnknownTool(c) ==
  LET msg == "Unknown tool: " \o c.name
      r == RecordActivity(c, FALSE, msg)
  IN [r.call EXCEPT !.outcome =
        IF r.raised THEN Threw(CallbackError)
        ELSE Threw(MCPError(ErrorCode.INVALID_PARAMS, msg, NoData))]

\* after `await tool.execute(validated)` resolved with result
AfterExecute(c, result) ==
  LET r == RecordActivity(c, TRUE, "")
  IN IF r.raised
     THEN Catch(r.call, CallbackError)
     ELSE [r.call EXCEPT !.outcome = Returned(FormatResult(result))]

\* a dispatch reaches an await / the awaited promise settles
Suspend(c) == inflight (+) SetToBag({c})
Resume(c) == inflight (-) SetToBag({c})
CanSuspend == BagCardinality(inflight) < MaxInflight

\* handleRequest('tools/call', {name, arguments}) up to its first await
DispatchToolsCallFrom(caller, name, args) ==
  LET c0 == [caller EXCEPT !.method = "tools/call", !.name = name, !.args = args]
  IN /\ UNCHANGED << stdinVars, options, tools, resources, resourceTemplates, onActivity, subscriptions, onNotification, onClientNotification, connectionVars >>
     /\ IF name \notin DOMAIN tools
        THEN /\ last' = Completed(UnknownTool(c0))
             /\ UNCHANGED inflight
        ELSE LET tool == tools[name]
                 c1 == [c0 EXCEPT !.tool = tool]
                 p == Parse(tool.parameters, ArgsOrEmpty(args))
             IN IF ~p.ok
                THEN /\ last' = Completed(
                                  Catch([c1 EXCEPT !.events = Append(@, "rejected")],
                                        ZodError(p.issues)))
                     /\ UNCHANGED inflight
                ELSE /\ CanSuspend
                     /\ inflight' = Suspend(
                          [c1 EXCEPT !.events = @ \o << "validated", "execute" >>,
                                     !.invokedWith =
                                        << HandlerInput(p.value, args) >>])
                     /\ last' = Op("dispatch", "", "", FALSE)
     /\ ActivityHandled

DispatchToolsCall(name, args) == DispatchToolsCallFrom(NoCall, name, args)

\* the handler awaited by the in-flight call c returns result
HandlerReturn(c, result) ==
  /\ BagIn(c, inflight)
  /\ c.method = "tools/call"
  /\ last' = Completed(AfterExecute([c EXCEPT !.settled = Returned(result)],
                                    result))
  /\ inflight' = Resume(c)
  /\ UNCHANGED << stdinVars, options, tools, resources, resourceTemplates, onActivity, subscriptions, onNotification, onClientNotification, connectionVars >>
  /\ ActivityHandled

\* the handler awaited by the in-flight call c throws err
HandlerThrow(c, err) ==
  /\ BagIn(c, inflight)
  /\ c.method = "tools/call"
  /\ last' = Completed(Catch([c EXCEPT !.settled = Threw(err)], err))
  /\ inflight' = Resume(c)
  /\ UNCHANGED << stdinVars, options, tools, resources, resourceTemplates, onActivity, subscriptions, onNotification, onClientNotification, connectionVars >>
  /\ ActivityHandled

\* ------------------------------------------------------------------------
\* Method table of handleRequest
\* ------------------------------------------------------------------------
SupportedMethods ==
  { "initialize", "tools/list", "tools/call", "resources/list",
    "resources/templates/list", "resources/read", "resources/subscribe",
    "resources/unsubscribe", "ping", "notifications/initialized",
    "notifications/cancelled", "notifications/roots/list_changed" }

\* method names a client may send that the switch has no case for
OtherMethods == {"tools/run", "resources/delete", "prompts/list"}

\* the default branch of the switch
UnknownMethod(method) ==
  MCPError(ErrorCode.METHOD_NOT_FOUND, "Unknown method: " \o method, NoData)

\* handleRequest(method) for a method without a case
DispatchOther(method) ==
  /\ method \notin SupportedMethods
  /\ last' = Completed([NoCall EXCEPT !.method = method,
                                      !.outcome = Threw(UnknownMethod(method))])
  /\ UNCHANGED << stdinVars, options, tools, resources, resourceTemplates, onActivity, subscriptions, inflight, onNotification, onClientNotification, transportVars >>

\* variant: a ping is recorded as activity
DispatchPingRecorded ==
  /\ last' = Completed([NoCall EXCEPT !.method = "ping",
                                      !.outcome = Returned(EmptyResult),
                                      !.handed =
                                         << ActivityEntry("ping", TRUE, "") >>])
  /\ UNCHANGED << stdinVars, options, tools, resources, resourceTemplates, onActivity, subscriptions, inflight, onNotification, onClientNotification, transportVars >>
  /\ wrote' = << >>

\* handleRequest('ping')
DispatchPing ==
  /\ last' = Completed([NoCall EXCEPT !.method = "ping",
                                      !.outcome = Returned(EmptyResult)])
  /\ UNCHANGED << stdinVars, options, tools, resources, resourceTemplates, onActivity, subscriptions, inflight, onNotification, onClientNotification, transportVars >>
  /\ wrote' = << >>

\* variant: the protocol version is the one the library was written for
InitializeResultFixedVersion ==
  [protocolVersion |-> "2025-11-25",
   serverInfo |-> [name |-> ServerName, version |-> ServerVersion],
   capabilities |-> [tools |-> [listChanged |-> TRUE],
                     resources |-> [subscribe |-> TRUE, listChanged |-> TRUE]]]

\* the result of initialize
InitializeResult ==
  [protocolVersion |-> ProtocolVersion,
   serverInfo |-> [name |-> ServerName, version |-> ServerVersion],
   capabilities |-> [tools |-> [listChanged |-> TRUE],
                     resources |-> [subscribe |-> TRUE, listChanged |-> TRUE]]]

\* handleRequest('initialize')
DispatchInitialize ==
  /\ last' = Completed([NoCall EXCEPT !.method = "initialize",
                                      !.outcome = Returned(InitializeResult)])
  /\ wrote' = << >>
  /\ UNCHANGED << stdinVars, options, tools, resources, resourceTemplates, onActivity,
                  subscriptions, inflight, onNotification, onClientNotification,
                  transportVars >>

\* the notifications a client sends to the server
ClientNotifications ==
  { "notifications/initialized", "notifications/cancelled",
    "notifications/roots/list_changed" }

\* client-notification callbacks an application installs
ClientNotificationCallbacks == {"c1", "c2"}

\* setClientNotificationCallback(callback)
SetClientNotificationCallback(cb) ==
  /\ onClientNotification' = cb
  /\ last' = Op("setClientNotificationCallback", "", "", FALSE)
  /\ wrote' = << >>
  /\ UNCHANGED << stdinVars, options, tools, resources, resourceTemplates, onActivity, subscriptions,
                  inflight, onNotification, transportVars >>

\* if (onClientNotification) onClientNotification(method, params)
ClientCalls(method, params) ==
  IF onClientNotification = "null" THEN << >>
  ELSE << [callback |-> onClientNotification, method |-> method,
           params |-> params] >>

\* variant: a cancellation drops the dispatches that await a handler
DispatchClientNotificationCancelling(method, params) ==
  /\ method \in ClientNotifications
  /\ last' = [Completed([NoCall EXCEPT !.method = method,
                                       !.outcome = Returned(EmptyResult)])
               EXCEPT !.clientCalls = ClientCalls(method, params)]
  /\ inflight' = IF method = "notifications/cancelled" THEN EmptyBag
                 ELSE inflight
  /\ UNCHANGED << stdinVars, options, tools, resources, resourceTemplates, onActivity, subscriptions,
                  onNotification, onClientNotification, transportVars >>

\* handleRequest(method, params) for the three client notifications
DispatchClientNotification(method, params) ==
  /\ method \in ClientNotifications
  /\ last' = [Completed([NoCall EXCEPT !.method = method,
                                       !.outcome = Returned(EmptyResult)])
               EXCEPT !.clientCalls = ClientCalls(method, params)]
  /\ UNCHANGED << stdinVars, options, tools, resources, resourceTemplates, onActivity, subscriptions,
                  inflight, onNotification, onClientNotification, transportVars >>

\* zodToJsonSchema(schema) for the two schemas: properties as the set of
\* <<key, type>> pairs, required as the keys pushed (left out when empty)
ZodToJsonSchema(schema) ==
  IF schema = "name"
  THEN [type |-> "object", properties |-> {<<"name", "string">>},
        required |-> <<"name">>]
  ELSE [type |-> "object", properties |-> {}, required |-> << >>]

\* the element tools/list builds for a tool
ToolListing(t) == [name |-> t.name, inputSchema |-> ZodToJsonSchema(t.parameters)]

\* the element resources/list builds for a resource
ResourceListing(r) ==
  [uri |-> r.uri, name |-> r.name, mimeType |-> r.mimeType,
   annotations |-> r.annotations]

\* the element resources/templates/list builds for a template
TemplateListing(t) ==
  [uriTemplate |-> t.uriTemplate, name |-> t.name, mimeType |-> t.mimeType,
   annotations |-> t.annotations]

\* handleRequest('tools/list'): the tool map keeps no insertion order here, so
\* the array is given by its elements
DispatchToolsList ==
  /\ last' = Completed([NoCall EXCEPT
                 !.method = "tools/list",
                 !.outcome = Returned([tools |->
                                {ToolListing(tools[k]) : k \in DOMAIN tools}])])
  /\ UNCHANGED << stdinVars, options, tools, resources, resourceTemplates, onActivity, subscriptions,
                  inflight, onNotification, onClientNotification, transportVars >>
  /\ wrote' = << >>

\* handleRequest('resources/list'), the array given by its elements
DispatchResourcesList ==
  /\ last' = Completed([NoCall EXCEPT
                 !.method = "resources/list",
                 !.outcome = Returned([resources |->
                                {ResourceListing(resources[k]) :
                                   k \in DOMAIN resources}])])
  /\ UNCHANGED << stdinVars, options, tools, resources, resourceTemplates, onActivity, subscriptions,
                  inflight, onNotification, onClientNotification, transportVars >>
  /\ wrote' = << >>

\* handleRequest('resources/templates/list')
DispatchResourcesTemplatesList ==
  /\ last' = Completed([NoCall EXCEPT
                 !.method = "resources/templates/list",
                 !.outcome = Returned([resourceTemplates |->
                                [i \in DOMAIN resourceTemplates |->
                                   TemplateListing(resourceTemplates[i])]])])
  /\ UNCHANGED << stdinVars, options, tools, resources, resourceTemplates, onActivity, subscriptions,
                  inflight, onNotification, onClientNotification, transportVars >>
  /\ wrote' = << >>

\* ------------------------------------------------------------------------
\* Subscription ledger
\* ------------------------------------------------------------------------
\* getSubscribers(uri)
GetSubscribers(subs, uri) == IF uri \in DOMAIN subs THEN subs[uri] ELSE {}

\* subscribe(uri, subscriberId) applied to the ledger subs
SubscribeTo(subs, uri, subscriberId) ==
  LET s1 == IF uri \notin DOMAIN subs THEN MapSet(subs, uri, {}) ELSE subs
  IN [s1 EXCEPT ![uri] = @ \cup {subscriberId}]

\* variant: the entry of a URI is kept when its set becomes empty
UnsubscribeKeepingEntry(subs, uri, subscriberId) ==
  IF uri \in DOMAIN subs
  THEN [subs EXCEPT ![uri] = @ \ {subscriberId}]
  ELSE subs

\* variant: the entry of a URI is deleted whoever unsubscribes from it
UnsubscribeDroppingEntry(subs, uri, subscriberId) ==
  IF uri \in DOMAIN subs THEN MapDelete(subs, uri) ELSE subs

\* unsubscribe(uri, subscriberId) applied to the ledger subs
UnsubscribeFrom(subs, uri, subscriberId) ==
  IF uri \in DOMAIN subs
  THEN LET rest == subs[uri] \ {subscriberId}
       IN IF rest = {} THEN MapDelete(subs, uri)
          ELSE [subs EXCEPT ![uri] = rest]
  ELSE subs

\* mcp.subscribe(uri, subscriberId), called directly
Subscribe(uri, subscriberId) ==
  /\ subscriptions' = SubscribeTo(subscriptions, uri, subscriberId)
  /\ last' = Op("subscribe", uri, subscriberId, FALSE)
  /\ UNCHANGED << stdinVars, options, tools, resources, resourceTemplates, onActivity, inflight, onNotification, onClientNotification, transportVars >>
  /\ wrote' = << >>

\* mcp.unsubscribe(uri, subscriberId), called directly
Unsubscribe(uri, subscriberId) ==
  /\ subscriptions' = UnsubscribeFrom(subscriptions, uri, subscriberId)
  /\ last' = Op("unsubscribe", uri, subscriberId, FALSE)
  /\ UNCHANGED << stdinVars, options, tools, resources, resourceTemplates, onActivity, inflight, onNotification, onClientNotification, transportVars >>
  /\ wrote' = << >>

\* variant: an entry is made for a URI that has none
GetSubscribersCallCreating(uri) ==
  /\ subscriptions' = IF uri \in DOMAIN subscriptions THEN subscriptions
                      ELSE MapSet(subscriptions, uri, {})
  /\ last' = [Op("getSubscribers", uri, "", FALSE)
                EXCEPT !.subscribers = GetSubscribers(subscriptions, uri)]
  /\ UNCHANGED << stdinVars, options, tools, resources, resourceTemplates, onActivity, inflight, onNotification, onClientNotification, transportVars >>
  /\ wrote' = << >>

\* mcp.getSubscribers(uri), called directly: the set it returns
GetSubscribersCall(uri) ==
  /\ last' = [Op("getSubscribers", uri, "", FALSE)
                EXCEPT !.subscribers = GetSubscribers(subscriptions, uri)]
  /\ UNCHANGED << stdinVars, options, tools, resources, resourceTemplates, onActivity, subscriptions, inflight, onNotification, onClientNotification, transportVars >>
  /\ wrote' = << >>

\* the error thrown when params.uri is falsy
MissingUri == PlainError("Missing uri parameter")

\* variant: the identifier of the params is used as it comes
SubscriberIdAsGiven(sid) == sid

\* params._subscriberId || 'default'
SubscriberId(sid) == IF sid = "" THEN "default" ELSE sid

\* handleRequest('resources/subscribe', {uri, _subscriberId}); uri "" stands
\* for a missing or empty uri, sid "" for a missing _subscriberId
DispatchResourcesSubscribe(uri, sid) ==
  LET c == [NoCall EXCEPT !.method = "resources/subscribe", !.uri = uri,
                          !.subscriberId = sid]
  IN /\ IF uri = ""
        THEN /\ last' = Completed([c EXCEPT !.outcome = Threw(MissingUri)])
             /\ UNCHANGED subscriptions
        ELSE /\ subscriptions' = SubscribeTo(subscriptions, uri, SubscriberId(sid))
             /\ last' = Completed([c EXCEPT !.outcome = Returned(EmptyResult)])
     /\ UNCHANGED << stdinVars, options, tools, resources, resourceTemplates, onActivity, inflight, onNotification, onClientNotification >>

\* handleRequest('resources/unsubscribe', {uri, _subscriberId})
DispatchResourcesUnsubscribe(uri, sid) ==
  LET c == [NoCall EXCEPT !.method = "resources/unsubscribe", !.uri = uri,
                          !.subscriberId = sid]
  IN /\ IF uri = ""
        THEN /\ last' = Completed([c EXCEPT !.outcome = Threw(MissingUri)])
             /\ UNCHANGED subscriptions
        ELSE /\ subscriptions' = UnsubscribeFrom(subscriptions, uri, SubscriberId(sid))
             /\ last' = Completed([c EXCEPT !.outcome = Returned(EmptyResult)])
     /\ UNCHANGED << stdinVars, options, tools, resources, resourceTemplates, onActivity, inflight, onNotification, onClientNotification >>

\* ------------------------------------------------------------------------
\* Notification router
\* ------------------------------------------------------------------------
\* Callbacks setNotificationCallback may install; "default" is the no-op the
\* server is constructed with, "transport" the one an HTTP transport installs.
NotificationCallbacks == {"cb1", "cb2"}

\* one invocation onNotification(method, params, targets); params is the uri
\* of {uri}, or "" for {}
Invocation(method, params, targets) ==
  [callback |-> onNotification, method |-> method, params |-> params,
   targets |-> targets]

\* generateClientId() for the counter value n; the timestamp is left out
ClientIds == << "client-1", "client-2", "client-3", "client-4" >>

GenerateClientId(n) == ClientIds[n]

\* the client connections of the HTTP transports
Connected == DOMAIN wsClients \cup sseClients

\* what the transport's notification callback writes to: every connection for
\* null targets, the connections whose id is a target otherwise
WrittenTo(targets) ==
  IF targets.null THEN Connected ELSE {c \in Connected : c \in targets.ids}

\* the connections of S in the order of their Map, which is the order in
\* which they connected
InMapOrder(S) == SelectSeq(ClientIds, LAMBDA c : c \in S)

\* variant: the SSE streams get a targeted notification whatever their id
NotificationCallbackSseAll(targets) ==
  IF targets.null
  THEN InMapOrder(DOMAIN wsClients) \o InMapOrder(sseClients)
  ELSE InMapOrder(DOMAIN wsClients \cap targets.ids) \o InMapOrder(sseClients)

\* the transport's notification callback: the connections it writes the
\* notification to, one element per write (broadcastToWsClients and
\* broadcastToSseClients for null targets, sendToWsClients and
\* sendToSseClients otherwise); the sockets in the map are open
NotificationCallback(targets) ==
  IF targets.null
  THEN InMapOrder(DOMAIN wsClients) \o InMapOrder(sseClients)
  ELSE InMapOrder(DOMAIN wsClients \cap targets.ids)
       \o InMapOrder(sseClients \cap targets.ids)

\* the writes of the callback invocations i.. of calls
RECURSIVE WritesFrom(_, _)
WritesFrom(calls, i) ==
  IF i > Len(calls) THEN << >>
  ELSE (IF calls[i].callback = "transport"
        THEN NotificationCallback(calls[i].targets) ELSE << >>)
       \o WritesFrom(calls, i + 1)

\* the connections written to by a sequence of callback invocations
Written(calls) ==
  UNION {IF calls[i].callback = "transport" THEN WrittenTo(calls[i].targets)
         ELSE {} : i \in DOMAIN calls}

\* setNotificationCallback(callback)
SetNotificationCallback(cb) ==
  /\ onNotification' = cb
  /\ last' = Op("setNotificationCallback", "", "", FALSE)
  /\ UNCHANGED << stdinVars, options, tools, resources, resourceTemplates, onActivity, subscriptions, inflight,
                  onClientNotification, transportVars >>
  /\ wrote' = << >>

\* variant: the notification goes to the callback the server was built with
NotifyCallsStale(method, params) ==
  << [Invocation(method, params, Broadcast) EXCEPT !.callback = "default"] >>

\* notify(method, params): the callback invocations it makes
NotifyCalls(method, params) == << Invocation(method, params, Broadcast) >>

\* variant: the size of the target set is not looked at
NotifyTargetedCallsUnguarded(method, params, targets) ==
  IF ~targets.null THEN << Invocation(method, params, targets) >>
  ELSE << >>

\* notifyTargeted(method, params, targets): the callback invocations it makes
NotifyTargetedCalls(method, params, targets) ==
  IF ~targets.null /\ Cardinality(targets.ids) > 0
  THEN << Invocation(method, params, targets) >>
  ELSE << >>

\* variant: the targets are the subscribers of every URI
NotifyResourceUpdatedCallsAll(uri) ==
  LET subscribers == UNION {subscriptions[u] : u \in DOMAIN subscriptions}
  IN IF Cardinality(subscribers) > 0
     THEN NotifyTargetedCalls("notifications/resources/updated", uri,
                              Targeted(subscribers))
     ELSE << >>

\* notifyResourceUpdated(uri): the callback invocations it makes
NotifyResourceUpdatedCalls(uri) ==
  LET subscribers == GetSubscribers(subscriptions, uri)
  IN IF Cardinality(subscribers) > 0
     THEN NotifyTargetedCalls("notifications/resources/updated", uri,
                              Targeted(subscribers))
     ELSE << >>

\* the history of a notifying operation called with the arguments given
\* that made the callback invocations calls
Notified(op, given, calls) ==
  /\ last' = [Op(op, "", "", FALSE) EXCEPT !.delivered = calls,
                                          !.written = Written(calls),
                                          !.writes = WritesFrom(calls, 1),
                                          !.given = given]
  /\ UNCHANGED << stdinVars, options, tools, resources, resourceTemplates, onActivity, subscriptions, inflight,
                  onNotification, onClientNotification, transportVars >>
  /\ wrote' = << >>

\* mcp.notify(method, params)
Notify(method, params) ==
  Notified("notify", Given(method, params, Broadcast),
           NotifyCalls(method, params))

\* mcp.notifyTargeted(method, params, targets)
NotifyTargeted(method, params, targets) ==
  Notified("notifyTargeted", Given(method, params, targets),
           NotifyTargetedCalls(method, params, targets))

\* mcp.notifyResourceUpdated(uri)
NotifyResourceUpdated(uri) ==
  Notified("notifyResourceUpdated", Given("", uri, Broadcast),
           NotifyResourceUpdatedCalls(uri))

\* mcp.notifyResourceListChanged()
NotifyResourceListChanged ==
  Notified("notifyResourceListChanged", NoNotification,
           NotifyCalls("notifications/resources/list_changed", ""))

\* mcp.notifyToolListChanged()
NotifyToolListChanged ==
  Notified("notifyToolListChanged", NoNotification,
           NotifyCalls("notifications/tools/list_changed", ""))

\* ------------------------------------------------------------------------
\* Resources
\* ------------------------------------------------------------------------
\* Values a reader resolves with: a string, {text, annotations?}, or a value
\* without a text property.  annotations "none" stands for a missing key.
RawString(s) ==
  [t |-> "string", s |-> s, hasText |-> FALSE, text |-> "", annotations |-> "none"]
RawText(text, annotations) ==
  [t |-> "object", s |-> "", hasText |-> TRUE, text |-> text,
   annotations |-> annotations]
RawObject(s) ==
  [t |-> "object", s |-> s, hasText |-> FALSE, text |-> "", annotations |-> "none"]
RawNull ==
  [t |-> "null", s |-> "", hasText |-> FALSE, text |-> "", annotations |-> "none"]

ReaderResults ==
  { RawString("dynamic"), RawText("fresh", "none"), RawText("fresh", "perRead"),
    RawObject("uptime"), RawNull }

ReaderExceptions == { PlainError("read failed") }

\* JSON.stringify of a reader's value
RawStringify(raw) ==
  CASE raw.t = "string" -> "\"" \o raw.s \o "\""
    [] raw.t = "null"   -> "null"
    [] OTHER            -> "{\"" \o raw.s \o "\":5}"

\* variant: the static annotations are preferred to those of the read
ContentStaticFirst(uri, resource, raw) ==
  LET isText == raw.t = "object" /\ raw.hasText
      text == IF isText THEN raw.text
              ELSE IF raw.t = "string" THEN raw.s ELSE RawStringify(raw)
      contentAnnotations == IF isText THEN raw.annotations ELSE "none"
      annotations == IF resource.annotations # "none" THEN resource.annotations
                     ELSE contentAnnotations
  IN [uri |-> uri, mimeType |-> resource.mimeType, text |-> text,
      annotations |-> annotations]

\* the content readResource builds from rawContent for a resource
Content(uri, resource, raw) ==
  LET isText == raw.t = "object" /\ raw.hasText
      text == IF isText THEN raw.text
              ELSE IF raw.t = "string" THEN raw.s ELSE RawStringify(raw)
      contentAnnotations == IF isText THEN raw.annotations ELSE "none"
      annotations == IF contentAnnotations # "none" THEN contentAnnotations
                     ELSE resource.annotations
  IN [uri |-> uri, mimeType |-> resource.mimeType, text |-> text,
      annotations |-> annotations]

\* {contents: [content]}
ReadResult(content) == [contents |-> << content >>]

\* variant: an unknown URI is reported as a bad parameter
ResourceNotFoundAsInvalidParams(uri) ==
  MCPError(ErrorCode.INVALID_PARAMS, "Resource not found: " \o uri, NoData)

ResourceNotFound(uri) ==
  MCPError(ErrorCode.RESOURCE_NOT_FOUND, "Resource not found: " \o uri, NoData)

\* ------------------------------------------------------------------------
\* RFC 6570 URI templates
\* ------------------------------------------------------------------------
\* The text of the URIs and templates the model reads character by character:
\* a string is a sequence of one-character strings.
Chars(str) ==
  CASE str = "u://a"       -> << "u", ":", "/", "/", "a" >>
    [] str = "u://a/b"     -> << "u", ":", "/", "/", "a", "/", "b" >>
    [] str = "u://%"       -> << "u", ":", "/", "/", "%" >>
    [] str = "u://%41"     -> << "u", ":", "/", "/", "%", "4", "1" >>
    [] str = "v://a"       -> << "v", ":", "/", "/", "a" >>
    [] str = "data://x"    -> << "d", "a", "t", "a", ":", "/", "/", "x" >>
    [] str = "data://y"    -> << "d", "a", "t", "a", ":", "/", "/", "y" >>
    [] str = "u://{id}"    -> << "u", ":", "/", "/", "{", "i", "d", "}" >>
    [] str = "u://{+path}" -> << "u", ":", "/", "/", "{", "+", "p", "a", "t", "h", "}" >>
    [] str = "u://{}"      -> << "u", ":", "/", "/", "{", "}" >>
    [] str = "files://{/path*}" ->
         << "f", "i", "l", "e", "s", ":", "/", "/", "{", "/", "p", "a", "t", "h", "*", "}" >>
    [] str = "search://{term}{?limit}{&offset}" ->
         << "s", "e", "a", "r", "c", "h", ":", "/", "/", "{", "t", "e", "r", "m", "}", "{", "?", "l", "i", "m", "i", "t", "}", "{", "&", "o", "f", "f", "s", "e", "t", "}" >>
    [] str = "m://x{;id}" ->
         << "m", ":", "/", "/", "x", "{", ";", "i", "d", "}" >>
    [] str = "q://x{?list*}" ->
         << "q", ":", "/", "/", "x", "{", "?", "l", "i", "s", "t", "*", "}" >>
    [] str = "files:///a/b/c" ->
         << "f", "i", "l", "e", "s", ":", "/", "/", "/", "a", "/", "b", "/", "c" >>
    [] str = "files:///a" ->
         << "f", "i", "l", "e", "s", ":", "/", "/", "/", "a" >>
    [] str = "files:///a/%41" ->
         << "f", "i", "l", "e", "s", ":", "/", "/", "/", "a", "/", "%", "4", "1" >>
    [] str = "search://hello?limit=10&offset=20" ->
         << "s", "e", "a", "r", "c", "h", ":", "/", "/", "h", "e", "l", "l", "o", "?", "l", "i", "m", "i", "t", "=", "1", "0", "&", "o", "f", "f", "s", "e", "t", "=", "2", "0" >>
    [] str = "search://hello?max=a=b&offset=" ->
         << "s", "e", "a", "r", "c", "h", ":", "/", "/", "h", "e", "l", "l", "o", "?", "m", "a", "x", "=", "a", "=", "b", "&", "o", "f", "f", "s", "e", "t", "=" >>
    [] str = "m://x;id=%41" ->
         << "m", ":", "/", "/", "x", ";", "i", "d", "=", "%", "4", "1" >>
    [] str = "m://x;a" ->
         << "m", ":", "/", "/", "x", ";", "a" >>
    [] str = "q://x?list=a" ->
         << "q", ":", "/", "/", "x", "?", "l", "i", "s", "t", "=", "a" >>
    [] str = "q://x?" ->
         << "q", ":", "/", "/", "x", "?" >>
    [] str = "path" ->
         << "p", "a", "t", "h" >>
    [] str = "term" ->
         << "t", "e", "r", "m" >>
    [] str = "limit" ->
         << "l", "i", "m", "i", "t" >>
    [] str = "offset" ->
         << "o", "f", "f", "s", "e", "t" >>
    [] str = "id" ->
         << "i", "d" >>
    [] str = "list" ->
         << "l", "i", "s", "t" >>
    [] str = "hello" ->
         << "h", "e", "l", "l", "o" >>
    [] str = "10" ->
         << "1", "0" >>
    [] str = "20" ->
         << "2", "0" >>
    [] str = "a=b" ->
         << "a", "=", "b" >>

\* the positions of s from `from` on that hold ch
PositionsFrom(s, ch, from) == {i \in from..Len(s) : s[i] = ch}

Min(S) == CHOOSE x \in S : \A y \in S : x <= y

Max(S) == CHOOSE x \in S : \A y \in S : x >= y

\* s.split(sep) for a one-character separator
RECURSIVE Split(_, _)
Split(s, sep) ==
  LET at == PositionsFrom(s, sep, 1)
  IN IF at = {} THEN << s >>
     ELSE << SubSeq(s, 1, Min(at) - 1) >>
          \o Split(SubSeq(s, Min(at) + 1, Len(s)), sep)

Operators == {"+", "#", ".", "/", ";", "?", "&"}

Digits == {"0", "1", "2", "3", "4", "5", "6", "7", "8", "9"}

\* v.replace(/:\d+$/, '')
StripPrefixModifier(v) ==
  LET colons == {i \in 1..Len(v) - 1 :
                   /\ v[i] = ":"
                   /\ \A k \in i + 1..Len(v) : v[k] \in Digits}
  IN IF colons = {} THEN v ELSE SubSeq(v, 1, Min(colons) - 1)

\* one element of varList: {name, explode}
ParseVariable(v) ==
  LET explode == Len(v) > 0 /\ v[Len(v)] = "*"
      unstarred == IF explode THEN SubSeq(v, 1, Len(v) - 1) ELSE v
  IN [name |-> StripPrefixModifier(unstarred), explode |-> explode]

\* parseExpression(expr): {operator, variables}
ParseExpression(expr) ==
  LET hasOperator == expr[1] \in Operators
      varList == IF hasOperator THEN SubSeq(expr, 2, Len(expr)) ELSE expr
      parts == Split(varList, ",")
  IN [operator |-> IF hasOperator THEN expr[1] ELSE "",
      variables |-> [i \in 1..Len(parts) |-> ParseVariable(parts[i])]]

\* getSeparator(operator)
GetSeparator(operator) ==
  CASE operator \in {"+", "", "#"} -> ","
    [] operator = "."              -> "."
    [] operator = "/"              -> "/"
    [] operator = ";"              -> ";"
    [] operator \in {"?", "&"}     -> "&"
    [] OTHER                       -> ","

\* getPrefix(operator); "" when the operator has none
GetPrefix(operator) ==
  IF operator \in {"#", ".", "/", ";", "?", "&"} THEN operator ELSE ""

\* Elements of a compiled pattern: a literal character (escaped in the
\* source, so it stands for itself), or a capture group of at least `least`
\* characters none of which is in `excluded`.
Literal(ch) == [kind |-> "literal", ch |-> ch, excluded |-> {}, least |-> 0]

Capture(excluded, least) ==
  [kind |-> "capture", ch |-> "", excluded |-> excluded, least |-> least]

\* what . does not match
LineTerminators == {"\n", "\r"}

\* getCapturePattern(operator, explode)
GetCapturePattern(operator, explode) ==
  CASE operator = "+" ->
         IF explode THEN Capture(LineTerminators, 1) ELSE Capture({","}, 1)
    [] operator = "#" -> Capture({","}, 0)
    [] operator = "/" ->
         IF explode THEN Capture(LineTerminators, 1) ELSE Capture({"/"}, 1)
    [] operator = "." -> Capture({".", "/"}, 1)
    [] operator = ";" ->
         IF explode THEN Capture({";"}, 0) ELSE Capture({";", ","}, 0)
    [] operator \in {"?", "&"} ->
         IF explode THEN Capture({"&"}, 0) ELSE Capture({"&", ","}, 0)
    [] OTHER ->
         IF explode THEN Capture(LineTerminators, 1) ELSE Capture({"/", ","}, 1)

\* the pattern of a literal text
Literals(s) == [i \in 1..Len(s) |-> Literal(s[i])]

\* the first match of /\{([^}]+)\}/ in t at or after position from:
\* {found, open, close}
FindExpression(t, from) ==
  LET opens == {p \in PositionsFrom(t, "{", from) :
                  /\ p + 1 <= Len(t)
                  /\ t[p + 1] # "}"
                  /\ PositionsFrom(t, "}", p + 2) # {}}
  IN IF opens = {} THEN [found |-> FALSE, open |-> 0, close |-> 0]
     ELSE [found |-> TRUE, open |-> Min(opens),
           close |-> Min(PositionsFrom(t, "}", Min(opens) + 2))]

\* the pattern and capture descriptions of the variables i.. of an expression
RECURSIVE ExpressionRegex(_, _, _)
ExpressionRegex(operator, variables, i) ==
  IF i > Len(variables) THEN [pattern |-> << >>, captures |-> << >>]
  ELSE LET rest == ExpressionRegex(operator, variables, i + 1)
           lead == IF i > 1 THEN << Literal(GetSeparator(operator)) >>
                   ELSE IF GetPrefix(operator) # ""
                   THEN << Literal(GetPrefix(operator)) >>
                   ELSE << >>
       IN [pattern |->
             lead \o << GetCapturePattern(operator, variables[i].explode) >>
                  \o rest.pattern,
           captures |->
             << [name |-> variables[i].name, operator |-> operator,
                 explode |-> variables[i].explode] >> \o rest.captures]

\* buildTemplateRegex(uriTemplate) from position lastIndex on: {pattern,
\* captures}; the pattern is anchored at both ends
RECURSIVE BuildFrom(_, _)
BuildFrom(t, lastIndex) ==
  LET e == FindExpression(t, lastIndex)
  IN IF ~e.found
     THEN [pattern |-> Literals(SubSeq(t, lastIndex, Len(t))), captures |-> << >>]
     ELSE LET parsed == ParseExpression(SubSeq(t, e.open + 1, e.close - 1))
              here == ExpressionRegex(parsed.operator, parsed.variables, 1)
              rest == BuildFrom(t, e.close + 1)
          IN [pattern |-> Literals(SubSeq(t, lastIndex, e.open - 1))
                          \o here.pattern \o rest.pattern,
              captures |-> here.captures \o rest.captures]

BuildTemplateRegex(uriTemplate) == BuildFrom(Chars(uriTemplate), 1)

NoMatch == [ok |-> FALSE, groups |-> << >>]

\* the length of the longest run of characters of s from position j on none
\* of which is in excluded
Run(s, j, excluded) ==
  Max({k \in 0..Len(s) - j + 1 : \A m \in j..j + k - 1 : s[m] \notin excluded})

\* the match of pattern[i..] against s[j..] a backtracking matcher finds
\* first: every group is greedy, and the pattern ends where s ends
RECURSIVE MatchFrom(_, _, _, _)
MatchFrom(pattern, i, s, j) ==
  IF i > Len(pattern) THEN [ok |-> j = Len(s) + 1, groups |-> << >>]
  ELSE IF pattern[i].kind = "literal"
  THEN IF j <= Len(s) /\ s[j] = pattern[i].ch
       THEN MatchFrom(pattern, i + 1, s, j + 1)
       ELSE NoMatch
  ELSE LET good == {k \in pattern[i].least..Run(s, j, pattern[i].excluded) :
                      MatchFrom(pattern, i + 1, s, j + k).ok}
       IN IF good = {} THEN NoMatch
          ELSE [ok |-> TRUE,
                groups |-> << SubSeq(s, j, j + Max(good) - 1) >>
                           \o MatchFrom(pattern, i + 1, s, j + Max(good)).groups]

\* uri.match(regex): {ok, groups}
RegexMatch(pattern, s) == MatchFrom(pattern, 1, s, 1)

HexDigits ==
  Digits \cup {"A", "B", "C", "D", "E", "F", "a", "b", "c", "d", "e", "f"}

HexValue(ch) ==
  CASE ch = "0" -> 0 [] ch = "1" -> 1 [] ch = "2" -> 2 [] ch = "3" -> 3
    [] ch = "4" -> 4 [] ch = "5" -> 5 [] ch = "6" -> 6 [] ch = "7" -> 7
    [] ch = "8" -> 8 [] ch = "9" -> 9
    [] ch \in {"A", "a"} -> 10 [] ch \in {"B", "b"} -> 11
    [] ch \in {"C", "c"} -> 12 [] ch \in {"D", "d"} -> 13
    [] ch \in {"E", "e"} -> 14 [] ch \in {"F", "f"} -> 15

\* the characters of the octets the texts of the model encode
Ascii(byte) ==
  CASE byte = 32 -> " " [] byte = 37 -> "%" [] byte = 44 -> ","
    [] byte = 47 -> "/" [] byte = 61 -> "=" [] byte = 65 -> "A"
    [] byte = 97 -> "a" [] byte = 98 -> "b"

\* octets that begin no UTF-8 sequence
NeverLead == (128..193) \cup (245..255)

Malformed == [ok |-> FALSE, value |-> << >>]

\* decodeURIComponent(s) from position i on: {ok, value}; not ok stands for
\* the URIError it throws.  Multi-octet sequences are not among the texts of
\* the model.
RECURSIVE DecodeFrom(_, _)
DecodeFrom(s, i) ==
  IF i > Len(s) THEN [ok |-> TRUE, value |-> << >>]
  ELSE IF s[i] # "%"
  THEN LET rest == DecodeFrom(s, i + 1)
       IN [ok |-> rest.ok, value |-> IF rest.ok THEN << s[i] >> \o rest.value
                                     ELSE << >>]
  ELSE IF i + 2 > Len(s) THEN Malformed
  ELSE IF s[i + 1] \notin HexDigits \/ s[i + 2] \notin HexDigits THEN Malformed
  ELSE LET byte == 16 * HexValue(s[i + 1]) + HexValue(s[i + 2])
       IN CASE byte \in NeverLead -> Malformed
            [] byte < 128 ->
                 LET rest == DecodeFrom(s, i + 3)
                 IN [ok |-> rest.ok,
                     value |-> IF rest.ok THEN << Ascii(byte) >> \o rest.value
                               ELSE << >>]

DecodeURIComponent(s) == DecodeFrom(s, 1)

\* variant: the value is what follows the last '='
DecodeCaptureAfterLastEquals(value, operator) ==
  IF value = << >> THEN [ok |-> TRUE, value |-> value]
  ELSE LET equals == PositionsFrom(value, "=", 1)
           stripped == IF operator \in {";", "?", "&"} /\ equals # {}
                       THEN SubSeq(value, Max(equals) + 1, Len(value))
                       ELSE value
       IN DecodeURIComponent(stripped)

\* decodeCapture(value, operator, name): {ok, value}
DecodeCapture(value, operator) ==
  IF value = << >> THEN [ok |-> TRUE, value |-> value]
  ELSE LET equals == PositionsFrom(value, "=", 1)
           stripped == IF operator \in {";", "?", "&"} /\ equals # {}
                       THEN SubSeq(value, Min(equals) + 1, Len(value))
                       ELSE value
       IN DecodeURIComponent(stripped)

\* params[name] = value on an object kept as a sequence of its properties in
\* creation order: {name, array, values}
ObjectSet(params, property) ==
  IF \E i \in DOMAIN params : params[i].name = property.name
  THEN [i \in DOMAIN params |->
          IF params[i].name = property.name THEN property ELSE params[i]]
  ELSE Append(params, property)

\* the value matchTemplate gives one capture: {ok, property}
CaptureValue(capture, value) ==
  IF capture.explode /\ value # << >>
  THEN LET pieces == Split(value, GetSeparator(capture.operator))
           decoded == [i \in DOMAIN pieces |->
                         DecodeCapture(pieces[i], capture.operator)]
       IN [ok |-> \A i \in DOMAIN decoded : decoded[i].ok,
           property |-> [name |-> capture.name, array |-> TRUE,
                         values |-> [i \in DOMAIN decoded |-> decoded[i].value]]]
  ELSE LET decoded == DecodeCapture(value, capture.operator)
       IN [ok |-> decoded.ok,
           property |-> [name |-> capture.name, array |-> FALSE,
                         values |-> << decoded.value >>]]

\* captures.forEach(...) over the captures 1..n: {ok, params}
RECURSIVE ParamsUpTo(_, _, _)
ParamsUpTo(captures, groups, n) ==
  IF n = 0 THEN [ok |-> TRUE, params |-> << >>]
  ELSE LET before == ParamsUpTo(captures, groups, n - 1)
           this == CaptureValue(captures[n], groups[n])
       IN IF before.ok /\ this.ok
          THEN [ok |-> TRUE, params |-> ObjectSet(before.params, this.property)]
          ELSE [ok |-> FALSE, params |-> << >>]

\* what decodeURIComponent throws
URIError == [PlainError("URI malformed") EXCEPT !.name = "URIError"]

\* matchTemplate(uri) over the template map: the first template in insertion
\* order whose pattern matches, with the parameters decoded from its captures
\* ("match"), null ("none"), or the URIError of a capture that does not
\* decode ("throw")
MatchTemplate(templates, uri) ==
  LET matching == {i \in DOMAIN templates :
                     RegexMatch(BuildTemplateRegex(templates[i].uriTemplate).pattern,
                                Chars(uri)).ok}
  IN IF matching = {}
     THEN [kind |-> "none", template |-> NoTemplate, params |-> << >>]
     ELSE LET template == templates[Min(matching)]
              built == BuildTemplateRegex(template.uriTemplate)
              groups == RegexMatch(built.pattern, Chars(uri)).groups
              decoded == ParamsUpTo(built.captures, groups, Len(built.captures))
          IN IF decoded.ok
             THEN [kind |-> "match", template |-> template,
                   params |-> decoded.params]
             ELSE [kind |-> "throw", template |-> template, params |-> << >>]

\* resourceTemplates.set(key, value): a key that is present keeps its place
TemplateSet(templates, key, value) ==
  IF \E i \in DOMAIN templates : templates[i].uriTemplate = key
  THEN [i \in DOMAIN templates |->
          IF templates[i].uriTemplate = key THEN value ELSE templates[i]]
  ELSE Append(templates, value)

\* variant: only the reader of a template is required
TemplateRejectedWithoutReader(uriTemplate, name, read) == read = "none"

\* !template.uriTemplate || !template.name || !template.read
TemplateRejected(uriTemplate, name, read) ==
  uriTemplate = "" \/ name = "" \/ read = "none"

\* addResourceTemplate(template): "" stands for a missing uriTemplate, name or
\* mimeType, "none" for a missing reader or missing annotations
AddResourceTemplate(uriTemplate, name, read, mimeType, annotations) ==
  /\ IF TemplateRejected(uriTemplate, name, read)
     THEN /\ UNCHANGED resourceTemplates
          /\ last' = Op("addResourceTemplate", uriTemplate, "", TRUE)
     ELSE /\ resourceTemplates' =
               TemplateSet(resourceTemplates, uriTemplate,
                           [uriTemplate |-> uriTemplate, name |-> name,
                            mimeType |-> IF mimeType = "" THEN "text/plain"
                                         ELSE mimeType,
                            read |-> read, annotations |-> annotations])
          /\ last' = Op("addResourceTemplate", uriTemplate, "", FALSE)
  /\ UNCHANGED << stdinVars, options, tools, resources, onActivity, subscriptions, inflight,
                  onNotification, onClientNotification, transportVars >>
  /\ wrote' = << >>

\* what readResource(uri) reads from: the resource registered at uri
\* ("resource"), or else what matchTemplate(uri) gives
ExactMatch == [kind |-> "resource", template |-> NoTemplate, params |-> << >>]

\* variant: the templates are tried before the resource map
ReadTargetTemplatesFirst(uri) ==
  IF MatchTemplate(resourceTemplates, uri).kind = "none" /\ uri \in DOMAIN resources
  THEN ExactMatch
  ELSE MatchTemplate(resourceTemplates, uri)

ReadTarget(uri) ==
  IF uri \in DOMAIN resources THEN ExactMatch
  ELSE MatchTemplate(resourceTemplates, uri)

\* addResource(resource): "" stands for a missing uri, name, text or mimeType,
\* "none" for a missing reader or missing annotations
AddResource(uri, name, text, read, mimeType, annotations) ==
  /\ IF uri = "" \/ name = "" \/ (text = "" /\ read = "none")
     THEN /\ UNCHANGED resources
          /\ last' = Op("addResource", uri, "", TRUE)
     ELSE /\ resources' = MapSet(resources, uri,
                            [uri |-> uri, name |-> name,
                             mimeType |-> IF mimeType = "" THEN "text/plain"
                                          ELSE mimeType,
                             text |-> text, read |-> read,
                             annotations |-> annotations])
          /\ last' = Op("addResource", uri, "", FALSE)
  /\ UNCHANGED << stdinVars, options, tools, resourceTemplates, onActivity, subscriptions, inflight,
                  onNotification, onClientNotification, transportVars >>
  /\ wrote' = << >>

\* addResource(resource) applied to the resource map: {map, threw}
AddResourceTo(map, resource) ==
  IF \/ resource.uri = "" \/ resource.name = ""
     \/ (resource.text = "" /\ resource.read = "none")
  THEN [map |-> map, threw |-> TRUE]
  ELSE [map |-> MapSet(map, resource.uri,
                       [uri |-> resource.uri, name |-> resource.name,
                        mimeType |-> IF resource.mimeType = "" THEN "text/plain"
                                     ELSE resource.mimeType,
                        text |-> resource.text, read |-> resource.read,
                        annotations |-> resource.annotations]),
        threw |-> FALSE]

\* the loop of addResources from element i on
RECURSIVE AddResourcesFrom(_, _, _)
AddResourcesFrom(map, resourceArray, i) ==
  IF i > Len(resourceArray) THEN [map |-> map, threw |-> FALSE]
  ELSE LET added == AddResourceTo(map, resourceArray[i])
       IN IF added.threw THEN added
          ELSE AddResourcesFrom(added.map, resourceArray, i + 1)

\* addResources(resourceArray)
AddResources(resourceArray) ==
  /\ resources' = AddResourcesFrom(resources, resourceArray, 1).map
  /\ last' = Op("addResources", "", "",
                AddResourcesFrom(resources, resourceArray, 1).threw)
  /\ UNCHANGED << stdinVars, options, tools, resourceTemplates, onActivity, subscriptions, inflight,
                  onNotification, onClientNotification, transportVars >>
  /\ wrote' = << >>

\* handleRequest('resources/read', {uri}) up to its first await
DispatchResourcesRead(uri) ==
  LET c == [NoCall EXCEPT !.method = "resources/read", !.uri = uri]
  IN /\ UNCHANGED << stdinVars, options, tools, resources, resourceTemplates, onActivity, subscriptions, onNotification, onClientNotification, transportVars >>
     /\ wrote' = << >>
     /\ IF uri = ""
        THEN /\ last' = Completed([c EXCEPT !.outcome = Threw(MissingUri)])
             /\ UNCHANGED inflight
        ELSE LET target == ReadTarget(uri)
             IN CASE target.kind = "none" ->
                       /\ last' = Completed([c EXCEPT !.outcome =
                                               Threw(ResourceNotFound(uri))])
                       /\ UNCHANGED inflight
                  [] target.kind = "throw" ->
                       /\ last' = Completed([c EXCEPT !.outcome = Threw(URIError)])
                       /\ UNCHANGED inflight
                  [] target.kind = "match" ->
                       /\ CanSuspend
                       /\ inflight' = Suspend([c EXCEPT !.template = target.template,
                                                        !.params = target.params,
                                                        !.events = << "read" >>])
                       /\ last' = Op("dispatch", "", "", FALSE)
                  [] target.kind = "resource" /\ resources[uri].read = "none" ->
                       /\ last' = Completed([c EXCEPT !.outcome =
                            Returned(ReadResult(Content(uri, resources[uri],
                                       RawString(resources[uri].text))))])
                       /\ UNCHANGED inflight
                  [] target.kind = "resource" /\ resources[uri].read # "none" ->
                       /\ CanSuspend
                       /\ inflight' = Suspend([c EXCEPT !.resource = resources[uri],
                                                        !.events = << "read" >>])
                       /\ last' = Op("dispatch", "", "", FALSE)

\* the resource or the template whose reader the resources/read c awaits
Source(c) == IF c.resource = NoResource THEN c.template ELSE c.resource

\* the reader awaited by the in-flight resources/read c resolves with raw;
\* the resource is the one looked up before the await
ReaderReturn(c, raw) ==
  /\ BagIn(c, inflight)
  /\ c.method = "resources/read"
  /\ last' = Completed([c EXCEPT !.outcome =
                 Returned(ReadResult(Content(c.uri, Source(c), raw)))])
  /\ inflight' = Resume(c)
  /\ UNCHANGED << stdinVars, options, tools, resources, resourceTemplates, onActivity, subscriptions, onNotification, onClientNotification, transportVars >>
  /\ wrote' = << >>

\* the reader awaited by the in-flight resources/read c rejects with err,
\* which handleRequest lets through
ReaderThrow(c, err) ==
  /\ BagIn(c, inflight)
  /\ c.method = "resources/read"
  /\ last' = Completed([c EXCEPT !.outcome = Threw(err)])
  /\ inflight' = Resume(c)
  /\ UNCHANGED << stdinVars, options, tools, resources, resourceTemplates, onActivity, subscriptions, onNotification, onClientNotification, transportVars >>
  /\ wrote' = << >>

\* ------------------------------------------------------------------------
\* Responses of the transports
\* ------------------------------------------------------------------------
\* the id of an inbound message: NoId stands for a message without an id key
NoId == "none"
RequestIds == {NoId, "7"}

\* id === undefined || id === null
IsNotification(id) == id = NoId

\* {jsonrpc: '2.0', result, id}; JSON.stringify leaves out an undefined id
ResultResponse(result, id) ==
  [kind |-> "result", id |-> id, code |-> 0, message |-> "", data |-> NoData,
   result |-> result]

\* {jsonrpc: '2.0', error: {code, message, data?}, id}
ErrorResponse(code, message, data, id) ==
  [kind |-> "error", id |-> id, code |-> code, message |-> message,
   data |-> data, result |-> JSUndefined]

\* errorToJsonRpc(err, id) of the HTTP transports, with MCPError.toJSON()
ErrorToJsonRpc(err, id) ==
  IF err.cls = "MCPError"
  THEN ErrorResponse(err.code, err.message, err.data, id)
  ELSE ErrorResponse(ErrorCode.INTERNAL_ERROR, err.message, NoData, id)

\* the catch block of the Bare and of the earlier Node stdio transport
StdioError(err) == ErrorResponse(-32603, err.message, NoData, "null")

\* the transports over stdin/stdout: the Node one ("stdio"), its earlier
\* version without errorToJsonRpc ("stdio-plain"), and the Bare one
StdioTransports == {"stdio", "stdio-plain", "stdio-bare"}

\* where a transport takes JSON-RPC messages from
Endpoints == {"stdin", "POST /mcp", "ws", "POST /message"}

\* the endpoint e exists on the transport; session tells whether the
\* sessionId of a POST /message names a connected SSE stream
Handles(e, session) ==
  CASE transport \in StdioTransports -> e = "stdin"
    [] transport = "http" -> e = "POST /mcp" \/ (e = "ws" /\ wsClients # << >>)
    [] transport = "http-bare" ->
         \/ e = "POST /mcp"
         \/ e = "POST /message" /\ (session => sseClients # {})
    [] OTHER -> FALSE

\* what the handler of endpoint e writes once handleRequest has settled, or
\* the handler itself has thrown, for the message id
Respond(e, session, id, outcome) ==
  CASE e = "stdin" /\ transport = "stdio" ->
         IF outcome.kind = "result"
         THEN IF IsNotification(id) THEN << >>
              ELSE << ResultResponse(outcome.value, id) >>
         ELSE << ErrorToJsonRpc(outcome.error, id) >>
    [] e = "stdin" ->
         IF outcome.kind = "result"
         THEN << ResultResponse(outcome.value, id) >>
         ELSE << StdioError(outcome.error) >>
    [] e = "ws" \/ (e = "POST /mcp" /\ transport = "http") ->
         IF outcome.kind = "result"
         THEN << ResultResponse(outcome.value, id) >>
         ELSE << ErrorToJsonRpc(outcome.error, id) >>
    [] e = "POST /mcp" /\ transport = "http-bare" ->
         IF outcome.kind = "result"
         THEN IF IsNotification(id) THEN << >>
              ELSE << ResultResponse(outcome.value, id) >>
         ELSE << ErrorToJsonRpc(outcome.error, id) >>
    [] OTHER ->
         IF outcome.kind = "result"
         THEN IF session /\ ~IsNotification(id)
              THEN << ResultResponse(outcome.value, id) >> ELSE << >>
         ELSE IF session THEN << ErrorToJsonRpc(outcome.error, id) >>
              ELSE << >>

\* the response to the dispatch that completed in this step, if one did
Answered(e, session, id) ==
  wrote' = IF last'.call.method = "" THEN << >>
           ELSE Respond(e, session, id, last'.call.outcome)

\* ------------------------------------------------------------------------
\* HTTP transports: connections and the subscription requests they carry
\* ------------------------------------------------------------------------
\* the two modules that export createHttpTransport
Transports == {"http", "http-bare"}

\* createHttpTransport(mcp): installs its activity and notification callbacks
CreateHttpTransport(kind) ==
  /\ transport = "none"
  /\ transport' = kind
  /\ onActivity' = "handleActivity"
  /\ onNotification' = "transport"
  /\ last' = Op("createHttpTransport", "", "", FALSE)
  /\ UNCHANGED << stdinVars, options, tools, resources, resourceTemplates, subscriptions, inflight,
                  wsClients, sseClients, clientIdCounter, requested,
                  onClientNotification, activityVars >>
  /\ wrote' = << >>

\* GET /sse: a new SSE stream is registered under a fresh client id
SseConnect ==
  /\ transport \in Transports
  /\ clientIdCounter < MaxClients
  /\ clientIdCounter' = clientIdCounter + 1
  /\ sseClients' = sseClients \cup {GenerateClientId(clientIdCounter + 1)}
  /\ requested' = MapSet(requested, GenerateClientId(clientIdCounter + 1), {})
  /\ last' = Op("GET /sse", "", GenerateClientId(clientIdCounter + 1), FALSE)
  /\ UNCHANGED << stdinVars, options, tools, resources, resourceTemplates, onActivity, subscriptions,
                  inflight, onNotification, onClientNotification, transport, wsClients,
                  activityVars >>
  /\ wrote' = << >>

\* req.on('close') of an SSE stream
SseClose(c) ==
  /\ c \in sseClients
  /\ sseClients' = sseClients \ {c}
  /\ requested' = MapDelete(requested, c)
  /\ last' = Op("sse close", "", c, FALSE)
  /\ UNCHANGED << stdinVars, options, tools, resources, resourceTemplates, onActivity, subscriptions,
                  inflight, onNotification, onClientNotification, transport, wsClients, clientIdCounter,
                  activityVars >>
  /\ wrote' = << >>

\* wss.on('connection') of the Node transport
WsConnect ==
  /\ transport = "http"
  /\ clientIdCounter < MaxClients
  /\ clientIdCounter' = clientIdCounter + 1
  /\ wsClients' = MapSet(wsClients, GenerateClientId(clientIdCounter + 1),
                         [subscriptions |-> {}])
  /\ requested' = MapSet(requested, GenerateClientId(clientIdCounter + 1), {})
  /\ last' = Op("ws connection", "", GenerateClientId(clientIdCounter + 1), FALSE)
  /\ UNCHANGED << stdinVars, options, tools, resources, resourceTemplates, onActivity, subscriptions,
                  inflight, onNotification, onClientNotification, transport, sseClients,
                  activityVars >>
  /\ wrote' = << >>

\* mcp.unsubscribe(uri, id) for every uri of uris
RECURSIVE UnsubscribeAll(_, _, _)
UnsubscribeAll(subs, uris, id) ==
  IF uris = {} THEN subs
  ELSE LET uri == CHOOSE u \in uris : TRUE
       IN UnsubscribeAll(UnsubscribeFrom(subs, uri, id), uris \ {uri}, id)

\* ws.on('close'): the tracked subscriptions of the client are withdrawn
WsClose(c) ==
  /\ c \in DOMAIN wsClients
  /\ subscriptions' = UnsubscribeAll(subscriptions, wsClients[c].subscriptions, c)
  /\ wsClients' = MapDelete(wsClients, c)
  /\ requested' = MapDelete(requested, c)
  /\ last' = Op("ws close", "", c, FALSE)
  /\ UNCHANGED << stdinVars, options, tools, resources, resourceTemplates, onActivity, inflight,
                  onNotification, onClientNotification, transport, sseClients, clientIdCounter,
                  activityVars >>
  /\ wrote' = << >>

\* ws.on('error'): the client is dropped from the map; the 'close' event
\* that follows finds no client
WsError(c) ==
  /\ c \in DOMAIN wsClients
  /\ wsClients' = MapDelete(wsClients, c)
  /\ requested' = MapDelete(requested, c)
  /\ last' = Op("ws error", "", c, FALSE)
  /\ UNCHANGED << stdinVars, options, tools, resources, resourceTemplates, onActivity, subscriptions,
                  inflight, onNotification, onClientNotification, transport, sseClients, clientIdCounter,
                  activityVars >>
  /\ wrote' = << >>

\* close() of the transport: {type: 'shutdown'} is written to every
\* connection, the sockets are closed and the client maps cleared; the
\* 'close' events of the sockets come later and find no client
CloseTransport ==
  /\ transport \in Transports
  /\ transport' = "closed"
  /\ wsClients' = << >>
  /\ sseClients' = {}
  /\ requested' = << >>
  /\ last' = [Op("close", "", "", FALSE) EXCEPT !.written = Connected]
  /\ UNCHANGED << stdinVars, options, tools, resources, resourceTemplates, onActivity, subscriptions,
                  inflight, onNotification, onClientNotification, clientIdCounter,
                  activityVars >>
  /\ wrote' = << >>

\* ws.on('message') with a resources/subscribe request of client c:
\* enrichedParams carries _subscriberId: clientId over whatever the params
\* held, and the uri is tracked when the dispatch succeeded
WsSubscribe(c, uri, id) ==
  /\ c \in DOMAIN wsClients
  /\ DispatchResourcesSubscribe(uri, c)
  /\ wsClients' = IF uri # ""
                  THEN [wsClients EXCEPT ![c].subscriptions = @ \cup {uri}]
                  ELSE wsClients
  /\ requested' = IF uri # "" THEN [requested EXCEPT ![c] = @ \cup {uri}]
                  ELSE requested
  /\ UNCHANGED << stdinVars, options, transport, sseClients, clientIdCounter,
                  activityVars >>
  /\ Answered("ws", TRUE, id)

\* ws.on('message') with a resources/unsubscribe request of client c
WsUnsubscribe(c, uri, id) ==
  /\ c \in DOMAIN wsClients
  /\ DispatchResourcesUnsubscribe(uri, c)
  /\ wsClients' = IF uri # ""
                  THEN [wsClients EXCEPT ![c].subscriptions = @ \ {uri}]
                  ELSE wsClients
  /\ requested' = IF uri # "" THEN [requested EXCEPT ![c] = @ \ {uri}]
                  ELSE requested
  /\ UNCHANGED << stdinVars, options, transport, sseClients, clientIdCounter,
                  activityVars >>
  /\ Answered("ws", TRUE, id)

\* POST /message?sessionId=c of the Bare transport with a resources/subscribe
\* request: the params go to handleRequest as the client sent them, sid
\* being the _subscriberId they hold ("" for none)
SseSubscribe(c, uri, sid, id) ==
  /\ transport = "http-bare"
  /\ c \in sseClients
  /\ DispatchResourcesSubscribe(uri, sid)
  /\ requested' = IF uri # "" THEN [requested EXCEPT ![c] = @ \cup {uri}]
                  ELSE requested
  /\ UNCHANGED << stdinVars, options, transport, wsClients, sseClients, clientIdCounter,
                  activityVars >>
  /\ Answered("POST /message", TRUE, id)

\* POST /message?sessionId=c with a resources/unsubscribe request
SseUnsubscribe(c, uri, sid, id) ==
  /\ transport = "http-bare"
  /\ c \in sseClients
  /\ DispatchResourcesUnsubscribe(uri, sid)
  /\ requested' = IF uri # "" THEN [requested EXCEPT ![c] = @ \ {uri}]
                  ELSE requested
  /\ UNCHANGED << stdinVars, options, transport, wsClients, sseClients, clientIdCounter,
                  activityVars >>
  /\ Answered("POST /message", TRUE, id)

\* POST /activity/clear of both transports and the {type: 'clear'} message
\* on a WebSocket: the list is emptied, the counter reset, and {type:
\* 'cleared'} written to every connection
ClearActivity ==
  /\ transport \in Transports
  /\ activityLog' = << >>
  /\ requestCount' = 0
  /\ last' = [Op("clear", "", "", FALSE) EXCEPT !.written = Connected]
  /\ UNCHANGED << stdinVars, options, tools, resources, resourceTemplates, onActivity, subscriptions,
                  inflight, onNotification, onClientNotification, connectionVars >>
  /\ wrote' = << >>

\* createStdioTransport(mcp): installs its activity and notification callbacks
CreateStdioTransport(kind) ==
  /\ transport = "none"
  /\ transport' = kind
  /\ onActivity' = "stdio"
  /\ onNotification' = "stdio"
  /\ last' = Op("createStdioTransport", "", "", FALSE)
  /\ wrote' = << >>
  /\ UNCHANGED << stdinVars, options, tools, resources, resourceTemplates, subscriptions, inflight,
                  wsClients, sseClients, clientIdCounter, requested,
                  onClientNotification, activityVars >>

\* a message with a jsonrpc other than '2.0': the stdio and HTTP handlers
\* throw before they dispatch, the WebSocket handler ignores the message
InvalidVersion ==
  IF transport \in {"stdio-plain", "stdio-bare"}
  THEN PlainError("Invalid JSON-RPC version")
  ELSE MCPError(ErrorCode.INVALID_REQUEST, "Invalid JSON-RPC version", NoData)

RequestInvalidVersion(e, session, id) ==
  /\ Handles(e, session)
  /\ last' = Op("request", "", id, TRUE)
  /\ wrote' = IF e = "ws" THEN << >>
              ELSE Respond(e, session, id, Threw(InvalidVersion))
  /\ UNCHANGED << stdinVars, options, tools, resources, resourceTemplates, onActivity, subscriptions,
                  inflight, onNotification, onClientNotification, transportVars >>

\* a tools/call arriving at endpoint e, up to the await of handleRequest
RequestToolsCall(e, session, id, name, args) ==
  /\ Handles(e, session)
  /\ DispatchToolsCall(name, args)
  /\ Answered(e, session, id)

\* handleRequest resolves for the handler of endpoint e that awaited the
\* tools/call c.  The id of the message is a local of that handler which
\* nothing reads before the response is written: it is drawn here.
AnswerReturn(e, session, id, c, result) ==
  /\ Handles(e, session)
  /\ HandlerReturn(c, result)
  /\ Answered(e, session, id)

\* handleRequest rejects for the handler of endpoint e that awaited c
AnswerThrow(e, session, id, c, err) ==
  /\ Handles(e, session)
  /\ HandlerThrow(c, err)
  /\ Answered(e, session, id)

\* POST /message?sessionId=S of the Bare transport with a tools/call: the
\* stream sseRes is looked up before the first await and kept by the handler
MessageToolsCall(S, id, name, args) ==
  LET sseRes == IF S \in sseClients THEN S ELSE ""
  IN /\ transport = "http-bare"
     /\ DispatchToolsCallFrom([NoCall EXCEPT !.session = sseRes,
                                            !.requestId = id], name, args)
     /\ Answered("POST /message", sseRes # "", id)

\* handleRequest resolves for the POST /message handler that awaited c: the
\* response goes to the stream the handler found when the message arrived
MessageReturn(c, result) ==
  /\ transport = "http-bare"
  /\ HandlerReturn(c, result)
  /\ Answered("POST /message", c.session # "", c.requestId)

\* handleRequest rejects for the POST /message handler that awaited c
MessageThrow(c, err) ==
  /\ transport = "http-bare"
  /\ HandlerThrow(c, err)
  /\ Answered("POST /message", c.session # "", c.requestId)

\* a message with a method that handleRequest has no case for
RequestOther(e, session, id, method) ==
  /\ Handles(e, session)
  /\ DispatchOther(method)
  /\ Answered(e, session, id)

\* a resources/subscribe arriving on stdin or at POST /mcp: the params go to
\* handleRequest as the client sent them
RequestSubscribe(e, id, uri, sid) ==
  /\ e \in {"stdin", "POST /mcp"}
  /\ Handles(e, FALSE)
  /\ DispatchResourcesSubscribe(uri, sid)
  /\ Answered(e, FALSE, id)
  /\ UNCHANGED transportVars

\* ------------------------------------------------------------------------
\* Specifications
\* ------------------------------------------------------------------------
\* inputs of the registration calls
ToolNameInputs == {"add", ""}
ParameterInputs == Schemas \cup {"none"}
ExecuteInputs == Handlers \cup {"none"}
UriInputs == Uris \cup {""}
SubscriberIdInputs == Subscribers \cup {""}
ResourceNameInputs == {"Settings", ""}
TextInputs == {"static", ""}
ReadInputs == {"r1", "none"}
MimeTypeInputs == {""}
AnnotationInputs == {"none"}

RegisterTool ==
  \E n \in ToolNameInputs, p \in ParameterInputs, e \in ExecuteInputs :
     AddTool(n, p, e)

InstallActivityCallback == \E cb \in ActivityCallbacks : SetActivityCallback(cb)

CallTool ==
  \E n \in RequestNames, a \in Args :
     DispatchToolsCall(n, a) /\ wrote' = << >>

HandlerReturns ==
  \E c \in BagToSet(inflight), r \in HandlerResults :
     HandlerReturn(c, r) /\ wrote' = << >>

HandlerThrows ==
  \E c \in BagToSet(inflight), e \in HandlerExceptions :
     HandlerThrow(c, e) /\ wrote' = << >>

CallOther == \E m \in OtherMethods : DispatchOther(m) /\ wrote' = << >>

SubscribeDirect ==
  \E u \in Uris, id \in Subscribers : Subscribe(u, id)

UnsubscribeDirect ==
  \E u \in Uris, id \in Subscribers : Unsubscribe(u, id)

CallSubscribe ==
  \E u \in UriInputs, id \in SubscriberIdInputs :
     DispatchResourcesSubscribe(u, id) /\ UNCHANGED transportVars
     /\ wrote' = << >>

CallUnsubscribe ==
  \E u \in UriInputs, id \in SubscriberIdInputs :
     DispatchResourcesUnsubscribe(u, id) /\ UNCHANGED transportVars
     /\ wrote' = << >>

RegisterResource ==
  \E u \in UriInputs, n \in ResourceNameInputs, t \in TextInputs,
     r \in ReadInputs, m \in MimeTypeInputs, a \in AnnotationInputs :
     AddResource(u, n, t, r, m, a)

CallRead == \E u \in UriInputs : DispatchResourcesRead(u)

ReaderReturns ==
  \E c \in BagToSet(inflight), r \in ReaderResults : ReaderReturn(c, r)

ReaderThrows ==
  \E c \in BagToSet(inflight), e \in ReaderExceptions : ReaderThrow(c, e)

\* the tool side of the dispatcher
NextTools ==
  \/ RegisterTool
  \/ InstallActivityCallback
  \/ CallTool
  \/ HandlerReturns
  \/ HandlerThrows
  \/ CallOther
  \/ DispatchPing

SpecTools == Init /\ [][NextTools]_vars

\* the subscription ledger and the resource methods that require a uri
NextLedger ==
  \/ SubscribeDirect
  \/ UnsubscribeDirect
  \/ CallSubscribe
  \/ CallUnsubscribe
  \/ CallRead

SpecLedger == Init /\ [][NextLedger]_vars

\* the resource registry and resources/read
NextResources ==
  \/ RegisterResource
  \/ CallRead
  \/ ReaderReturns
  \/ ReaderThrows

SpecResources == Init /\ [][NextResources]_vars

\* inputs of the template registrations and of the reads they serve
TemplateInputs == {"u://{id}", "u://{+path}", ""}
TemplateNameInputs == {"Item", ""}
TemplateReadInputs == {"t1", "t2", "none"}
MatchedUris == {"u://a"}
ReadUriInputs == {"u://a", "u://a/b", "u://%", "v://a"}

RegisterTemplate ==
  \E t \in TemplateInputs, n \in TemplateNameInputs, r \in TemplateReadInputs,
     m \in MimeTypeInputs, a \in AnnotationInputs :
     AddResourceTemplate(t, n, r, m, a)

MatchedContentInputs == {<<"static", "none">>, <<"", "r1">>}
MatchedReaderResults == {RawString("dynamic"), RawText("fresh", "perRead")}

RegisterMatchedResource ==
  \E u \in MatchedUris, n \in ResourceNameInputs, s \in MatchedContentInputs,
     m \in MimeTypeInputs, a \in AnnotationInputs :
     AddResource(u, n, s[1], s[2], m, a)

ReadMatched == \E u \in ReadUriInputs : DispatchResourcesRead(u)

MatchedReaderReturns ==
  \E c \in BagToSet(inflight), r \in MatchedReaderResults : ReaderReturn(c, r)

\* the template registry and the reads it serves
NextTemplates ==
  \/ RegisterTemplate
  \/ RegisterMatchedResource
  \/ ReadMatched
  \/ MatchedReaderReturns
  \/ ReaderThrows

SpecTemplates == Init /\ [][NextTemplates]_vars

\* templates with exploded, query and path-style expressions, and URIs for them
ExpressionTemplates ==
  {"files://{/path*}", "search://{term}{?limit}{&offset}", "m://x{;id}",
   "q://x{?list*}"}
ExpressionUris ==
  {"files:///a/b/c", "files:///a", "files:///a/%41",
   "search://hello?limit=10&offset=20", "search://hello?max=a=b&offset=",
   "m://x;id=%41", "m://x;a", "q://x?list=a", "q://x?"}

RegisterExpressionTemplate ==
  \E t \in ExpressionTemplates : AddResourceTemplate(t, "Item", "t1", "", "none")

\* one read at a time
ReadExpression ==
  /\ inflight = EmptyBag
  /\ \E u \in ExpressionUris : DispatchResourcesRead(u)

ExpressionReaderReturns ==
  \E c \in BagToSet(inflight) : ReaderReturn(c, RawString("dynamic"))

\* reads through templates of the several expression kinds
NextMatching ==
  \/ RegisterExpressionTemplate
  \/ ReadExpression
  \/ ExpressionReaderReturns

SpecMatching == Init /\ [][NextMatching]_vars

\* inputs of the bulk registrations: arrays of up to MaxBulk definitions
ToolDefinitions ==
  { [name |-> "add", parameters |-> "none", execute |-> "h1"],
    [name |-> "add", parameters |-> "name", execute |-> "h2"],
    [name |-> "add", parameters |-> "none", execute |-> "none"] }

ResourceDefinitions ==
  { [uri |-> "data://x", name |-> "Settings", text |-> "static", read |-> "none",
     mimeType |-> "", annotations |-> "none"],
    [uri |-> "data://y", name |-> "Settings", text |-> "", read |-> "r1",
     mimeType |-> "", annotations |-> "none"],
    [uri |-> "data://y", name |-> "Settings", text |-> "", read |-> "none",
     mimeType |-> "", annotations |-> "none"] }

ArraysOf(S) == UNION {[1..n -> S] : n \in 0..MaxBulk}

RegisterTools == \E toolArray \in ArraysOf(ToolDefinitions) : AddTools(toolArray)

RegisterResources ==
  \E resourceArray \in ArraysOf(ResourceDefinitions) : AddResources(resourceArray)

\* the registration calls
NextRegistry ==
  \/ RegisterTool
  \/ RegisterResource
  \/ RegisterTemplate
  \/ RegisterTools
  \/ RegisterResources

SpecRegistry == Init /\ [][NextRegistry]_vars

\* inputs of the re-registrations: several definitions for one key
ReplacedSchemas == {"none", "name"}
ReplacedResources ==
  { [name |-> "Settings", text |-> "static", read |-> "none", mimeType |-> ""],
    [name |-> "Status", text |-> "", read |-> "r1",
     mimeType |-> "application/json"] }
ReplacedTemplates ==
  { [name |-> "Item", read |-> "t1"], [name |-> "Entry", read |-> "t2"] }
ReplacedArgs == {NoArgs}

ReplaceTool ==
  \E p \in ReplacedSchemas, e \in Handlers : AddTool("add", p, e)

ReplaceResource ==
  \E d \in ReplacedResources :
     AddResource("data://x", d.name, d.text, d.read, d.mimeType, "none")

ReplaceTemplate ==
  \E d \in ReplacedTemplates :
     AddResourceTemplate("u://{id}", d.name, d.read, "", "none")

CallReplaced ==
  \E a \in ReplacedArgs : DispatchToolsCall("add", a) /\ wrote' = << >>

ReplacedHandlerReturns ==
  \E c \in BagToSet(inflight) :
     HandlerReturn(c, JSString("Hello")) /\ wrote' = << >>

ReadReplaced == \E u \in {"data://x", "u://a"} : DispatchResourcesRead(u)

ReplacedReaderReturns ==
  \E c \in BagToSet(inflight) : ReaderReturn(c, RawString("dynamic"))

\* re-registrations and the requests that use the registered definitions
NextReplace ==
  \/ ReplaceTool
  \/ ReplaceResource
  \/ ReplaceTemplate
  \/ CallReplaced
  \/ ReplacedHandlerReturns
  \/ ReadReplaced
  \/ ReplacedReaderReturns
  \/ DispatchToolsList
  \/ DispatchResourcesList
  \/ DispatchResourcesTemplatesList

SpecReplace == Init /\ [][NextReplace]_vars

\* the tool calls an HTTP transport records, up to MaxRecorded entries
\* between two clears
MaxRecorded == 102

RegisterLoggedTool == AddTool("add", "none", "h1")

CallLogged ==
  /\ "add" \in DOMAIN tools
  /\ requestCount + BagCardinality(inflight) < MaxRecorded
  /\ DispatchToolsCall("add", NoArgs)
  /\ wrote' = << >>

LoggedHandlerReturns ==
  \E c \in BagToSet(inflight) :
     HandlerReturn(c, JSString("Hello")) /\ wrote' = << >>

CreateTransport == \E kind \in Transports : CreateHttpTransport(kind)

CloseSse == \E c \in sseClients : SseClose(c)

CloseWs == \E c \in DOMAIN wsClients : WsClose(c)

ErrorWs == \E c \in DOMAIN wsClients : WsError(c)

WsCallSubscribe ==
  \E c \in DOMAIN wsClients, u \in UriInputs : WsSubscribe(c, u, "7")

WsCallUnsubscribe ==
  \E c \in DOMAIN wsClients, u \in UriInputs : WsUnsubscribe(c, u, "7")

SseCallSubscribe ==
  \E c \in sseClients, u \in UriInputs, id \in SubscriberIdInputs :
     SseSubscribe(c, u, id, "7")

SseCallUnsubscribe ==
  \E c \in sseClients, u \in UriInputs, id \in SubscriberIdInputs :
     SseUnsubscribe(c, u, id, "7")

\* inputs of the notifying calls
NotifyMethods == {"notifications/message", "notifications/resources/list_changed"}
NotifyParams == {"", "p"}
TargetInputs == {Broadcast} \cup {Targeted(ids) : ids \in SUBSET Subscribers}

InstallNotificationCallback ==
  \E cb \in NotificationCallbacks : SetNotificationCallback(cb)

CallNotify == \E m \in NotifyMethods, p \in NotifyParams : Notify(m, p)

CallNotifyTargeted ==
  \E m \in NotifyMethods, p \in NotifyParams, t \in TargetInputs :
     NotifyTargeted(m, p, t)

CallNotifyResourceUpdated == \E u \in Uris : NotifyResourceUpdated(u)

\* the notification router over the subscription ledger
NextNotify ==
  \/ SubscribeDirect
  \/ UnsubscribeDirect
  \/ InstallNotificationCallback
  \/ CallNotify
  \/ CallNotifyTargeted
  \/ CallNotifyResourceUpdated
  \/ NotifyResourceListChanged
  \/ NotifyToolListChanged

SpecNotify == Init /\ [][NextNotify]_vars

\* the connections of an HTTP transport, their subscription requests and the
\* resource updates delivered to them
NextTransport ==
  \/ CreateTransport
  \/ SseConnect
  \/ CloseSse
  \/ WsConnect
  \/ CloseWs
  \/ ErrorWs
  \/ WsCallSubscribe
  \/ WsCallUnsubscribe
  \/ SseCallSubscribe
  \/ SseCallUnsubscribe
  \/ CallNotifyResourceUpdated

SpecTransport == Init /\ [][NextTransport]_vars

\* the WebSocket connections of a transport from their opening to their end
NextConnections ==
  \/ CreateTransport
  \/ WsConnect
  \/ WsCallSubscribe
  \/ WsCallUnsubscribe
  \/ CloseWs
  \/ ErrorWs
  \/ CloseTransport

SpecConnections == Init /\ [][NextConnections]_vars

\* notifications sent while connections come and go
NextDelivery ==
  \/ CreateTransport
  \/ SseConnect
  \/ WsConnect
  \/ CloseSse
  \/ CloseWs
  \/ CallNotify
  \/ CallNotifyTargeted

SpecDelivery == Init /\ [][NextDelivery]_vars

NextActivity ==
  \/ CreateTransport
  \/ RegisterLoggedTool
  \/ CallLogged
  \/ LoggedHandlerReturns
  \/ ClearActivity

SpecActivity == Init /\ [][NextActivity]_vars

\* inputs of the requests that arrive at a transport
MaxRequests == 2
AnsweredExceptions ==
  { MCPError(-32001, "Rate limit exceeded", ObjData("retryAfter")),
    PlainError("Intentional failure") }

CreateStdio == \E kind \in StdioTransports : CreateStdioTransport(kind)

ConnectOneWs == clientIdCounter = 0 /\ WsConnect

ConnectOneSse == clientIdCounter = 0 /\ SseConnect

ReceiveToolsCall ==
  \E e \in Endpoints, s \in BOOLEAN, id \in RequestIds :
     /\ requestCount + BagCardinality(inflight) < MaxRequests
     /\ RequestToolsCall(e, s, id, "add", NoArgs)

AnswerReturns ==
  \E e \in Endpoints, s \in BOOLEAN, id \in RequestIds,
     c \in BagToSet(inflight) : AnswerReturn(e, s, id, c, JSString("Hello"))

AnswerThrows ==
  \E e \in Endpoints, s \in BOOLEAN, id \in RequestIds,
     c \in BagToSet(inflight), err \in AnsweredExceptions :
     AnswerThrow(e, s, id, c, err)

ReceiveOther ==
  \E e \in Endpoints, s \in BOOLEAN, id \in RequestIds :
     RequestOther(e, s, id, "prompts/list")

ReceiveSubscribe ==
  \E e \in Endpoints, id \in RequestIds, u \in {"", "data://x"} :
     RequestSubscribe(e, id, u, "")

ReceiveInvalidVersion ==
  \E e \in Endpoints, s \in BOOLEAN, id \in RequestIds :
     RequestInvalidVersion(e, s, id)

\* the messages that arrive at a transport and the responses it writes
NextRequests ==
  \/ CreateTransport
  \/ CreateStdio
  \/ RegisterLoggedTool
  \/ ConnectOneWs
  \/ ConnectOneSse
  \/ ReceiveToolsCall
  \/ AnswerReturns
  \/ AnswerThrows
  \/ ReceiveOther
  \/ ReceiveSubscribe
  \/ ReceiveInvalidVersion

SpecRequests == Init /\ [][NextRequests]_vars

\* sessions of the Bare transport: SSE streams and the messages POSTed for them
SessionIds == {"client-1", "client-2"}

CreateBareTransport == CreateHttpTransport("http-bare")

PostMessage ==
  \E S \in SessionIds, id \in RequestIds :
     /\ requestCount + BagCardinality(inflight) < MaxRequests
     /\ MessageToolsCall(S, id, "add", NoArgs)

MessageReturns ==
  \E c \in BagToSet(inflight) : MessageReturn(c, JSString("Hello"))

MessageThrows ==
  \E c \in BagToSet(inflight) :
     MessageThrow(c, PlainError("Intentional failure"))

NextSession ==
  \/ CreateBareTransport
  \/ RegisterLoggedTool
  \/ SseConnect
  \/ CloseSse
  \/ PostMessage
  \/ MessageReturns
  \/ MessageThrows

SpecSession == Init /\ [][NextSession]_vars

\* subscription requests on the WebSocket connections and at POST /mcp
PostSubscribe ==
  \E u \in UriInputs, sid \in SubscriberIdInputs :
     RequestSubscribe("POST /mcp", "7", u, sid)

NextTracking ==
  \/ CreateTransport
  \/ WsConnect
  \/ WsCallSubscribe
  \/ WsCallUnsubscribe
  \/ PostSubscribe
  \/ CloseWs

SpecTracking == Init /\ [][NextTracking]_vars

\* resources and templates with and without static annotations, and the
\* values their readers give
StaticAnnotations == {"none", "audience"}

RegisterAnnotatedResource ==
  \E s \in MatchedContentInputs, a \in StaticAnnotations :
     AddResource("data://x", "Settings", s[1], s[2], "", a)

RegisterAnnotatedTemplate ==
  \E a \in StaticAnnotations :
     AddResourceTemplate("u://{id}", "Item", "t1", "application/json", a)

ReadAnnotated == \E u \in {"data://x", "u://a"} : DispatchResourcesRead(u)

NextContent ==
  \/ RegisterAnnotatedResource
  \/ RegisterAnnotatedTemplate
  \/ ReadAnnotated
  \/ ReaderReturns

SpecContent == Init /\ [][NextContent]_vars

\* the ledger operations beside registered tools, resources and templates
CallGetSubscribers == \E u \in Uris : GetSubscribersCall(u)

RegisterOneResource ==
  AddResource("data://x", "Settings", "static", "none", "", "none")

RegisterOneTemplate == AddResourceTemplate("u://{id}", "Item", "t1", "", "none")

NextFrame ==
  \/ RegisterLoggedTool
  \/ RegisterOneResource
  \/ RegisterOneTemplate
  \/ SubscribeDirect
  \/ UnsubscribeDirect
  \/ CallSubscribe
  \/ CallUnsubscribe
  \/ CallGetSubscribers

SpecFrame == Init /\ [][NextFrame]_vars

\* the methods that only read, after registrations, subscriptions and calls
NextReadOnly ==
  \/ RegisterLoggedTool
  \/ RegisterOneResource
  \/ RegisterOneTemplate
  \/ SubscribeDirect
  \/ CallLogged
  \/ LoggedHandlerReturns
  \/ DispatchInitialize
  \/ DispatchPing
  \/ DispatchToolsList
  \/ DispatchResourcesList
  \/ DispatchResourcesTemplatesList
  \/ ReadAnnotated
  \/ ReaderReturns
  \/ ReaderThrows

SpecReadOnly == Init /\ [][NextReadOnly]_vars

\* inputs of the client notifications
ClientParams == {"requestId"}

InstallClientNotificationCallback ==
  \E cb \in ClientNotificationCallbacks : SetClientNotificationCallback(cb)

ClientNotifies ==
  \E m \in ClientNotifications, p \in ClientParams :
     DispatchClientNotification(m, p) /\ wrote' = << >>

LoggedHandlerThrows ==
  \E c \in BagToSet(inflight) :
     HandlerThrow(c, PlainError("Intentional failure")) /\ wrote' = << >>

\* client notifications arriving while tool calls await their handlers
NextClient ==
  \/ InstallClientNotificationCallback
  \/ ClientNotifies
  \/ RegisterLoggedTool
  \/ CallLogged
  \/ LoggedHandlerReturns
  \/ LoggedHandlerThrows
  \/ SubscribeDirect

SpecClient == Init /\ [][NextClient]_vars

\* options a server is created with
OptionInputs ==
  [name : {"", "my-server"}, version : {"", "2.0.0"},
   protocolVersion : {"", "2025-01-01"}]

\* createMCPServer(options) for any of the options
InitWithOptions == Constructed /\ options \in OptionInputs /\ StdinIdle

\* initialize among other requests and calls, in any order
NextInitialize ==
  \/ DispatchInitialize
  \/ DispatchPing
  \/ DispatchToolsList
  \/ RegisterLoggedTool
  \/ CallSubscribe
  \/ CallUnsubscribe

SpecInitialize == InitWithOptions /\ [][NextInitialize]_vars

\* ------------------------------------------------------------------------
\* Bare stdio transport: reading lines from the standard input
\* ------------------------------------------------------------------------
\* the bytes of the input: "x" is a byte of a request, " " a space, "LF" the
\* newline, and "C3" "A9" are the two bytes of one character, U+00E9
MaxBytes == 4

RECURSIVE Streams(_)
Streams(n) ==
  IF n = 0 THEN {<< >>}
  ELSE Streams(n - 1)
       \cup {s \o << b >> : s \in Streams(n - 1), b \in {"x", " ", "LF"}}
       \cup (IF n >= 2 THEN {s \o << "C3", "A9" >> : s \in Streams(n - 2)}
             ELSE {})

StdinInputs == {s \in Streams(MaxBytes) : Len(s) > 0}

\* chunk.toString(): the UTF-8 text of the chunk from byte i on; a byte that
\* is not part of a whole character within the chunk becomes U+FFFD
RECURSIVE ChunkToString(_, _)
ChunkToString(chunk, i) ==
  IF i > Len(chunk) THEN << >>
  ELSE IF chunk[i] = "C3"
       THEN IF i < Len(chunk) /\ chunk[i + 1] = "A9"
            THEN << "U+00E9" >> \o ChunkToString(chunk, i + 2)
            ELSE << "U+FFFD" >> \o ChunkToString(chunk, i + 1)
       ELSE IF chunk[i] = "A9"
            THEN << "U+FFFD" >> \o ChunkToString(chunk, i + 1)
            ELSE << chunk[i] >> \o ChunkToString(chunk, i + 1)

\* line.trim()
RECURSIVE Trim(_)
Trim(line) ==
  IF line = << >> THEN line
  ELSE IF Head(line) = " " THEN Trim(Tail(line))
  ELSE IF line[Len(line)] = " " THEN Trim(SubSeq(line, 1, Len(line) - 1))
  ELSE line

\* processLine(line), up to the point where it awaits the dispatcher: a blank
\* line returns, any other line is parsed and dispatched and will write one
\* line, the result or the error
ProcessLine(done, line) ==
  IF Trim(line) = << >>
  THEN [done EXCEPT !.lines = Append(@, line)]
  ELSE [done EXCEPT !.lines = Append(@, line), !.awaiting = @ + 1]

\* the loop of onData: every line that ends in the buffer is cut off and
\* processed, what follows the last newline stays
RECURSIVE DrainLines(_, _)
DrainLines(text, done) ==
  LET at == PositionsFrom(text, "LF", 1)
  IN IF at = {} THEN [buffer |-> text, processed |-> done]
     ELSE DrainLines(SubSeq(text, Min(at) + 1, Len(text)),
                     ProcessLine(done, SubSeq(text, 1, Min(at) - 1)))

\* onData(chunk)
OnData(chunk) ==
  LET drained == DrainLines(buffer \o ChunkToString(chunk, 1), processed)
  IN /\ transport = "stdio-bare"
     /\ buffer' = drained.buffer
     /\ processed' = drained.processed
     /\ last' = Op("onData", "", "", FALSE)
     /\ wrote' = << >>

\* process.stdin emits 'data' with the next bytes of the input, however many
StdinData ==
  \E n \in 1..Len(stdin.pending) :
    /\ OnData(SubSeq(stdin.pending, 1, n))
    /\ stdin' = [received |-> stdin.received \o SubSeq(stdin.pending, 1, n),
                 pending |-> SubSeq(stdin.pending, n + 1, Len(stdin.pending))]
    /\ UNCHANGED << options, tools, resources, resourceTemplates, onActivity,
                    subscriptions, inflight, onNotification,
                    onClientNotification, transportVars >>

\* a call of processLine gets its result, or its error, and writes its line
ProcessLineWrites ==
  /\ transport = "stdio-bare"
  /\ processed.awaiting > 0
  /\ processed' = [processed EXCEPT !.awaiting = @ - 1, !.written = @ + 1]
  /\ last' = Op("processLine", "", "", FALSE)
  /\ wrote' = << >>
  /\ UNCHANGED << stdin, buffer, options, tools, resources, resourceTemplates,
                  onActivity, subscriptions, inflight, onNotification,
                  onClientNotification, transportVars >>

CreateStdioBare == CreateStdioTransport("stdio-bare")

\* a server whose standard input will deliver any of the inputs
InitStdin ==
  /\ Constructed
  /\ options = NoOptions
  /\ stdin \in {[received |-> << >>, pending |-> s] : s \in StdinInputs}
  /\ buffer = << >>
  /\ processed = NoLines

NextStdin ==
  \/ CreateStdioBare
  \/ StdinData
  \/ ProcessLineWrites

SpecStdin == InitStdin /\ [][NextStdin]_vars

Next ==
  \/ NextTools
  \/ NextLedger
  \/ NextResources
  \/ NextNotify
  \/ NextTemplates
  \/ NextRegistry
  \/ NextTransport
  \/ NextReplace
  \/ NextActivity
  \/ NextRequests
  \/ NextClient
  \/ NextInitialize
  \/ NextMatching
  \/ NextConnections
  \/ NextDelivery
  \/ NextSession
  \/ NextTracking
  \/ NextContent
  \/ NextFrame
  \/ NextReadOnly
  \/ NextStdin

Spec == Init /\ [][Next]_vars

\* ------------------------------------------------------------------------
\* Properties
\* ------------------------------------------------------------------------
\* every dispatch the state knows of: the suspended ones and the one that
\* completed in the last step
AllCalls == BagToSet(inflight) \cup {last.call}

\* the tools/call that completed in the last step, if any
ToolCallDone == last.call.method = "tools/call"

\* what the validator of the bound tool says about the supplied arguments
ValidationOf(c) == Parse(c.tool.parameters, ArgsOrEmpty(c.args))

Executions(c) == {i \in DOMAIN c.events : c.events[i] = "execute"}

\* C1: a tools/call naming a registered tool invokes the handler at most
\* once; exactly once, with the validator's output for the supplied
\* arguments, when validation succeeds; and never before validation of that
\* call has succeeded.
C1_HandlerOnceAfterValidation ==
  \A c \in AllCalls :
    c.method = "tools/call" =>
      /\ Len(c.invokedWith) <= 1
      /\ Cardinality(Executions(c)) = Len(c.invokedWith)
      /\ (c.tool # NoTool /\ ValidationOf(c).ok)
            => c.invokedWith = << ValidationOf(c).value >>
      /\ (c.tool = NoTool \/ ~ValidationOf(c).ok) => c.invokedWith = << >>
      /\ \A i \in Executions(c) : \E j \in 1..(i - 1) : c.events[j] = "validated"

\* a call completed whose handler ran on arguments the validator had changed
C1_Witness ==
  /\ ToolCallDone
  /\ last.call.outcome.kind = "result"
  /\ last.call.args.present /\ last.call.args.extra
  /\ last.call.invokedWith = << [present |-> TRUE, name |-> "str", extra |-> FALSE] >>

\* C2: when the validator rejects the arguments, the dispatch fails with
\* InvalidParams (-32602) whose data carries the validator's list of issues,
\* and the handler is not invoked.
C2_ValidationFailureIsInvalidParams ==
  (ToolCallDone /\ last.call.tool # NoTool /\ ~ValidationOf(last.call).ok) =>
     /\ last.call.outcome.kind = "error"
     /\ last.call.outcome.error.cls = "MCPError"
     /\ last.call.outcome.error.code = -32602
     /\ last.call.outcome.error.data = IssuesData(ValidationOf(last.call).issues)
     /\ last.call.invokedWith = << >>

\* C3: a typed protocol error raised by the handler is the error of the
\* dispatch, unchanged; every other exception makes the dispatch fail with
\* InternalError (-32603) carrying the original message.
C3_HandlerExceptionMapping ==
  (ToolCallDone /\ last.call.settled.kind = "error") =>
     LET thrown == last.call.settled.error
         err == last.call.outcome.error
     IN /\ last.call.outcome.kind = "error"
        /\ IF thrown.cls = "MCPError"
           THEN err = thrown
           ELSE /\ err.cls = "MCPError"
                /\ err.code = -32603
                /\ err.message = thrown.message

\* C4: a method outside the method table fails with UnknownMethod (-32601);
\* tools/call naming an unregistered tool fails with InvalidParams (-32602)
\* and invokes no handler.
C4_UnknownMethodAndUnknownTool ==
  /\ (last.call.method # "" /\ last.call.method \notin SupportedMethods) =>
        /\ last.call.outcome.kind = "error"
        /\ last.call.outcome.error.cls = "MCPError"
        /\ last.call.outcome.error.code = -32601
  /\ (ToolCallDone /\ last.call.tool = NoTool) =>
        /\ last.call.outcome.kind = "error"
        /\ last.call.outcome.error.cls = "MCPError"
        /\ last.call.outcome.error.code = -32602
        /\ last.call.invokedWith = << >>

\* C5: resources/read, resources/subscribe and resources/unsubscribe without
\* a uri fail with a typed InvalidParams error (-32602) and leave the ledger
\* unchanged.
C5_MissingUriIsInvalidParams ==
  (/\ last.call.method \in {"resources/read", "resources/subscribe",
                            "resources/unsubscribe"}
   /\ last.call.uri = "") =>
     /\ last.call.outcome.kind = "error"
     /\ last.call.outcome.error.cls = "MCPError"
     /\ last.call.outcome.error.code = -32602
     /\ subscriptions = last.before

\* C6: every tools/call hands exactly one activity entry to the activity
\* callback; the entry names the requested tool and has success = true
\* exactly when the handler returned normally.
C6_OneActivityEntryPerCall ==
  ToolCallDone =>
     /\ Len(last.call.handed) = 1
     /\ last.call.handed[1].tool = last.call.name
     /\ last.call.handed[1].success = (last.call.settled.kind = "result")

\* the outcome handleRequest computes for a completed tools/call when
\* recording the activity has no effect
OutcomeWithoutActivity(c) ==
  IF c.tool = NoTool
  THEN Threw(MCPError(-32602, "Unknown tool: " \o c.name, NoData))
  ELSE IF ~ValidationOf(c).ok
       THEN Threw(CatchError(ZodError(ValidationOf(c).issues)))
       ELSE IF c.settled.kind = "result"
            THEN Returned(FormatResult(c.settled.value))
            ELSE Threw(CatchError(c.settled.error))

\* C7: the result or error of a tools/call is the same whatever the installed
\* activity callback does, including when it raises.
C7_ActivityCallbackHasNoEffect ==
  ToolCallDone => last.call.outcome = OutcomeWithoutActivity(last.call)

\* C8: the result of a successful tools/call is the handler's value
\* normalised: an array becomes {content: array}; {content: [...], isError?}
\* is returned unchanged; every other value becomes one text item.
C8_ResultNormalisation ==
  (ToolCallDone /\ last.call.outcome.kind = "result") =>
     LET r == last.call.settled.value
         v == last.call.outcome.value
     IN CASE r.t = "array" -> v = JSResult(r.items, "unset")
          [] r.t = "object" /\ r.content = "array" -> v = r
          [] OTHER ->
               /\ v.t = "object" /\ v.content = "array"
               /\ Len(v.items) = 1
               /\ v.items[1].type = "text"

\* C9: every URI present in the ledger maps to a non-empty subscriber set.
C9_NoEmptySubscriberSet ==
  \A u \in DOMAIN subscriptions : subscriptions[u] # {}

\* the last subscriber of a URI has just unsubscribed
C9_Witness ==
  /\ \/ last.op = "unsubscribe"
     \/ last.call.method = "resources/unsubscribe"
  /\ last.uri \in DOMAIN last.before
  /\ Cardinality(last.before[last.uri]) = 1
  /\ last.uri \notin DOMAIN subscriptions
  /\ DOMAIN subscriptions # {}

\* the ledger operation of the last step: its kind and its (uri, id) pair
LastSubscribes ==
  \/ last.op = "subscribe"
  \/ last.call.method = "resources/subscribe" /\ ~last.threw
LastUnsubscribes ==
  \/ last.op = "unsubscribe"
  \/ last.call.method = "resources/unsubscribe" /\ ~last.threw
LastId == IF last.op = "dispatch" THEN SubscriberId(last.id) ELSE last.id

\* C10: subscribing a pair that is already a member leaves the ledger as it
\* was (one entry for the id); unsubscribing a non-member, or from a URI
\* without an entry, leaves the ledger unchanged and does not fail.
C10_SubscribeUnsubscribeIdempotent ==
  /\ (LastSubscribes /\ LastId \in GetSubscribers(last.before, last.uri))
        => subscriptions = last.before
  /\ LastSubscribes
        => /\ LastId \in GetSubscribers(subscriptions, last.uri)
           /\ subscriptions =
                SubscribeTo(subscriptions, last.uri, LastId)
  /\ (LastUnsubscribes /\ LastId \notin GetSubscribers(last.before, last.uri))
        => subscriptions = last.before /\ ~last.threw

\* a member subscribed again while the URI has another subscriber
C10_Witness ==
  /\ LastSubscribes
  /\ LastId \in GetSubscribers(last.before, last.uri)
  /\ Cardinality(GetSubscribers(last.before, last.uri)) = 2

\* the single invocation of the installed callback the last step is to make
Once(method, params, targets) ==
  << [callback |-> onNotification, method |-> method, params |-> params,
      targets |-> targets] >>

\* C11: notifyResourceUpdated(uri) invokes the notification callback if and
\* only if the ledger holds a subscriber of uri, and then exactly once, with
\* method notifications/resources/updated, params {uri} and exactly the
\* subscribers of uri as targets.
C11_ResourceUpdatedReachesExactlySubscribers ==
  last.op = "notifyResourceUpdated" =>
    LET uri == last.given.params
        subscribers == GetSubscribers(last.before, uri)
    IN IF subscribers # {}
       THEN last.delivered = Once("notifications/resources/updated", uri,
                                  [null |-> FALSE, ids |-> subscribers])
       ELSE last.delivered = << >>

\* a resource update went to the one subscriber of its URI while another URI
\* has a different subscriber
C11_Witness ==
  /\ last.op = "notifyResourceUpdated"
  /\ Len(last.delivered) = 1
  /\ Cardinality(last.delivered[1].targets.ids) = 1
  /\ \E u \in DOMAIN subscriptions :
        /\ u # last.given.params
        /\ subscriptions[u] \ last.delivered[1].targets.ids # {}

\* C12: notifyTargeted invokes the notification callback exactly once with
\* exactly the given target set when the set is non-empty, not at all when
\* it is empty, and never with null targets.
C12_TargetedDeliveryOnlyToGivenSet ==
  last.op = "notifyTargeted" =>
    /\ \A i \in DOMAIN last.delivered : ~last.delivered[i].targets.null
    /\ ~last.given.targets.null =>
         IF last.given.targets.ids # {}
         THEN last.delivered = Once(last.given.method, last.given.params,
                                    last.given.targets)
         ELSE last.delivered = << >>

\* notifyTargeted was called with an empty target set
C12_Witness ==
  /\ last.op = "notifyTargeted"
  /\ ~last.given.targets.null
  /\ last.given.targets.ids = {}
  /\ onNotification # "default"

\* the operations that broadcast
BroadcastOps == {"notify", "notifyResourceListChanged", "notifyToolListChanged"}

\* C13: notify, notifyResourceListChanged and notifyToolListChanged invoke the
\* installed callback exactly once within the call with null targets; no
\* other callback is invoked, and installing a callback invokes nothing.
C13_BroadcastOnceToInstalledCallback ==
  /\ last.op = "notify" =>
       last.delivered = Once(last.given.method, last.given.params,
                             [null |-> TRUE, ids |-> {}])
  /\ last.op = "notifyResourceListChanged" =>
       last.delivered = Once("notifications/resources/list_changed", "",
                             [null |-> TRUE, ids |-> {}])
  /\ last.op = "notifyToolListChanged" =>
       last.delivered = Once("notifications/tools/list_changed", "",
                             [null |-> TRUE, ids |-> {}])
  /\ last.op = "setNotificationCallback" => last.delivered = << >>
  /\ \A i \in DOMAIN last.delivered :
       last.delivered[i].callback = onNotification

\* a broadcast was made after a callback had been installed over the one the
\* server was built with
C13_Witness ==
  /\ last.op \in BroadcastOps
  /\ onNotification = "cb2"
  /\ Len(last.delivered) = 1

\* the subscriber a subscription request is to act for: the identifier its
\* params carry, 'default' when they carry none
ActsFor(c) == IF c.subscriberId = "" THEN "default" ELSE c.subscriberId

\* the (uri, subscriber) pairs of a ledger
Pairs(subs) ==
  {p \in (DOMAIN subs) \X (Subscribers \cup {"default", ""}) : p[2] \in subs[p[1]]}

\* C14: a successful resources/subscribe leaves the subscriber it acts for
\* (the identifier of the params, 'default' without one) among the
\* subscribers of the uri, a successful resources/unsubscribe leaves it out,
\* and no other pair of the ledger changes.
C14_SubscribeRequestsActOnGivenOrDefaultId ==
  LET c == last.call
  IN /\ (c.method = "resources/subscribe" /\ c.outcome.kind = "result") =>
          /\ ActsFor(c) \in GetSubscribers(subscriptions, c.uri)
          /\ Pairs(subscriptions) = Pairs(last.before) \cup {<<c.uri, ActsFor(c)>>}
     /\ (c.method = "resources/unsubscribe" /\ c.outcome.kind = "result") =>
          /\ ActsFor(c) \notin GetSubscribers(subscriptions, c.uri)
          /\ Pairs(subscriptions) = Pairs(last.before) \ {<<c.uri, ActsFor(c)>>}

\* a request without an identifier unsubscribed 'default' while a client
\* that named itself stays subscribed to the same uri
C14_Witness ==
  /\ last.call.method = "resources/unsubscribe"
  /\ last.call.outcome.kind = "result"
  /\ last.call.subscriberId = ""
  /\ "default" \in GetSubscribers(last.before, last.call.uri)
  /\ GetSubscribers(subscriptions, last.call.uri) = {"client-1"}

\* the registered templates whose pattern matches uri, by position
Matching(uri) ==
  {i \in DOMAIN resourceTemplates :
     RegexMatch(BuildTemplateRegex(resourceTemplates[i].uriTemplate).pattern,
                Chars(uri)).ok}

\* the step suspends exactly one new dispatch of which P holds
Awaits(P(_)) ==
  \E c \in BagToSet(inflight') : inflight' = inflight (+) SetToBag({c}) /\ P(c)

\* the step is a dispatch for uri, or one that suspended, and it resumed
\* no suspended one
NotResumed(uri) ==
  /\ last'.op = "dispatch"
  /\ last'.call.uri \in {uri, ""}
  /\ BagCardinality(inflight') >= BagCardinality(inflight)

\* the content of the read that completed in the step
ReadContent == last'.call.outcome.value.contents[1]

\* C16: a read of a URI at which a resource is registered is served from that
\* resource (its text or its reader, its mimeType) and awaits the reader of
\* no template, whether or not a registered template matches the URI.
C16_ExactMatchPrecedence ==
  [][ /\ \A u \in ReadUriInputs :
           (/\ NotResumed(u)
            /\ u \in DOMAIN resources
            /\ DispatchResourcesRead(u)) =>
              IF resources[u].read = "none"
              THEN /\ inflight' = inflight
                   /\ last'.call.outcome.kind = "result"
                   /\ ReadContent.text = resources[u].text
                   /\ ReadContent.mimeType = resources[u].mimeType
              ELSE LET FromResource(c) == /\ c.uri = u
                                          /\ c.resource = resources[u]
                                          /\ c.template = NoTemplate
                   IN Awaits(FromResource)
      /\ \A c \in BagToSet(inflight), raw \in MatchedReaderResults :
           (/\ last'.call.method = "resources/read"
            /\ c.resource # NoResource
            /\ ReaderReturn(c, raw)) =>
              /\ last'.call.outcome.kind = "result"
              /\ ReadContent.uri = c.uri
              /\ ReadContent.mimeType = c.resource.mimeType
    ]_vars

\* a read of a URI that a registered template matches completed from the
\* reader of the resource registered at that URI
C16_Witness ==
  /\ last.call.method = "resources/read"
  /\ last.call.outcome.kind = "result"
  /\ last.call.resource.read # "none"
  /\ last.call.uri \in DOMAIN resources
  /\ Matching(last.call.uri) # {}

\* the keys of the template map in their order
TemplateKeys(templates) == [i \in DOMAIN templates |-> templates[i].uriTemplate]

\* C17: a read of a URI without a resource that several registered templates
\* match awaits the reader of exactly one template, the first registered of
\* the matching ones; registering a pattern again keeps its position.
C17_FirstRegisteredTemplateWins ==
  [][ /\ \A u \in ReadUriInputs :
           (/\ NotResumed(u)
            /\ u \notin DOMAIN resources
            /\ DispatchResourcesRead(u)
            /\ Cardinality(Matching(u)) > 1) =>
              LET first == resourceTemplates[Min(Matching(u))]
                  FromFirst(c) == /\ c.uri = u
                                  /\ c.template = first
                                  /\ c.resource = NoResource
                                  /\ c.events = << "read" >>
              IN Awaits(FromFirst)
      /\ \A t \in TemplateInputs, n \in TemplateNameInputs,
            r \in TemplateReadInputs, m \in MimeTypeInputs,
            a \in AnnotationInputs :
           (/\ last'.op = "addResourceTemplate"
            /\ \E i \in DOMAIN resourceTemplates :
                  resourceTemplates[i].uriTemplate = t
            /\ AddResourceTemplate(t, n, r, m, a)) =>
              TemplateKeys(resourceTemplates') = TemplateKeys(resourceTemplates)
    ]_vars

\* C18: a read of a URI at which no resource is registered and which no
\* registered template matches fails with ResourceNotFound (-32002) and
\* awaits no reader.
C18_UnmatchedUriIsResourceNotFound ==
  [][ \A u \in ReadUriInputs :
        (/\ NotResumed(u)
         /\ u \notin DOMAIN resources
         /\ DispatchResourcesRead(u)
         /\ Matching(u) = {}) =>
           /\ inflight' = inflight
           /\ last'.call.events = << >>
           /\ last'.call.outcome.kind = "error"
           /\ last'.call.outcome.error.cls = "MCPError"
           /\ last'.call.outcome.error.code = -32002
    ]_vars

\* a read failed with ResourceNotFound while a resource and a template that
\* does not match the URI are registered
C18_Witness ==
  /\ last.call.method = "resources/read"
  /\ last.call.outcome.kind = "error"
  /\ last.call.outcome.error.code = -32002
  /\ resources # << >>
  /\ resourceTemplates # << >>
  /\ Matching(last.call.uri) = {}

\* the step leaves the tool, resource and template maps as they were
RegistriesUnchanged ==
  /\ tools' = tools
  /\ resources' = resources
  /\ resourceTemplates' = resourceTemplates

\* C19: addTool without name or handler, addResource without uri, name or any
\* content source, and addResourceTemplate without uriTemplate, name or
\* reader fail and leave the tool, resource and template maps unchanged.
C19_FailedRegistrationChangesNothing ==
  [][ /\ \A n \in ToolNameInputs, p \in ParameterInputs, e \in ExecuteInputs :
           (/\ last'.op = "addTool"
            /\ n = "" \/ e = "none"
            /\ AddTool(n, p, e)) => (last'.threw /\ RegistriesUnchanged)
      /\ \A u \in UriInputs, n \in ResourceNameInputs, t \in TextInputs,
            r \in ReadInputs, m \in MimeTypeInputs, a \in AnnotationInputs :
           (/\ last'.op = "addResource"
            /\ u = "" \/ n = "" \/ (t = "" /\ r = "none")
            /\ AddResource(u, n, t, r, m, a)) =>
              (last'.threw /\ RegistriesUnchanged)
      /\ \A t \in TemplateInputs, n \in TemplateNameInputs,
            r \in TemplateReadInputs, m \in MimeTypeInputs,
            a \in AnnotationInputs :
           (/\ last'.op = "addResourceTemplate"
            /\ t = "" \/ n = "" \/ r = "none"
            /\ AddResourceTemplate(t, n, r, m, a)) =>
              (last'.threw /\ RegistriesUnchanged)
    ]_vars

\* a registration failed while each of the three maps holds a definition
C19_Witness ==
  /\ last.op \in {"addTool", "addResource", "addResourceTemplate"}
  /\ last.threw
  /\ tools # << >>
  /\ resources # << >>
  /\ resourceTemplates # << >>

\* C20: addTools or addResources called with an array that holds an invalid
\* definition fails and adds none of the array's elements: the map is as it
\* was before the call.
C20_BulkRegistrationIsAllOrNothing ==
  [][ /\ \A toolArray \in ArraysOf(ToolDefinitions) :
           (/\ last'.op = "addTools"
            /\ \E i \in DOMAIN toolArray :
                  toolArray[i].name = "" \/ toolArray[i].execute = "none"
            /\ AddTools(toolArray)) => (last'.threw /\ tools' = tools)
      /\ \A resourceArray \in ArraysOf(ResourceDefinitions) :
           (/\ last'.op = "addResources"
            /\ \E i \in DOMAIN resourceArray :
                  \/ resourceArray[i].uri = "" \/ resourceArray[i].name = ""
                  \/ (resourceArray[i].text = "" /\ resourceArray[i].read = "none")
            /\ AddResources(resourceArray)) =>
              (last'.threw /\ resources' = resources)
    ]_vars

\* the connections that subscribed to uri over their own connection and
\* have not unsubscribed from it
SubscribedConnections(uri) == {c \in Connected : uri \in requested[c]}

\* C15: a resources/subscribe arriving on a WebSocket or SSE connection
\* registers that connection's client id, and a resource update is written
\* to exactly the connections that are connected and subscribed to the uri.
C15_SubscriptionsOfAConnectionReachIt ==
  /\ \A c \in Connected : \A u \in requested[c] :
        c \in GetSubscribers(subscriptions, u)
  /\ last.op = "notifyResourceUpdated" =>
        last.written = SubscribedConnections(last.given.params)

\* the resource definition has exactly one content source: static text or a
\* reader, not both
OneContentSource(resource) == (resource.text # "") # (resource.read # "none")

\* C21: addResource accepts a definition with uri and name exactly when it
\* supplies one content source, static text or a reader, and not both; every
\* resource in the map has exactly one content source.
C21_ExactlyOneContentSource ==
  [][ \A u \in Uris, n \in ResourceNameInputs \ {""}, t \in TextInputs,
         r \in ReadInputs, m \in MimeTypeInputs, a \in AnnotationInputs :
        (/\ last'.op = "addResource"
         /\ AddResource(u, n, t, r, m, a)) =>
           /\ last'.threw <=> ~OneContentSource([text |-> t, read |-> r])
           /\ \A k \in DOMAIN resources' : OneContentSource(resources'[k])
    ]_vars

\* the dispatches that this step suspended at their await
Suspended == {c \in BagToSet(inflight') : CopiesIn(c, inflight') > CopiesIn(c, inflight)}

\* C22: a registration under a registered key replaces the whole definition:
\* the map then holds, under that key only, the definition just given with
\* its defaults and nothing of the one before, and every other key as it
\* was; tools/call binds and validates with the definition in the map,
\* resources/read reads from the one in the map, the list methods list the
\* definitions in the maps.
C22_ReRegistrationReplaces ==
  [][ /\ \A p \in ReplacedSchemas, e \in Handlers :
           (last'.op = "addTool" /\ AddTool("add", p, e)) =>
              /\ DOMAIN tools' = DOMAIN tools \cup {"add"}
              /\ tools'["add"] =
                   [name |-> "add", execute |-> e,
                    parameters |-> IF p = "none" THEN "empty" ELSE p]
      /\ \A d \in ReplacedResources :
           (last'.op = "addResource"
            /\ AddResource("data://x", d.name, d.text, d.read, d.mimeType,
                           "none")) =>
              /\ DOMAIN resources' = DOMAIN resources \cup {"data://x"}
              /\ resources'["data://x"] =
                   [uri |-> "data://x", name |-> d.name, text |-> d.text,
                    read |-> d.read,
                    mimeType |-> IF d.mimeType = "" THEN "text/plain"
                                 ELSE d.mimeType,
                    annotations |-> "none"]
      /\ \A d \in ReplacedTemplates :
           (last'.op = "addResourceTemplate"
            /\ AddResourceTemplate("u://{id}", d.name, d.read, "", "none")) =>
              /\ Len(resourceTemplates') = 1
              /\ resourceTemplates'[1] =
                   [uriTemplate |-> "u://{id}", name |-> d.name, read |-> d.read,
                    mimeType |-> "text/plain", annotations |-> "none"]
      /\ \A a \in ReplacedArgs :
           (last'.op = "dispatch" /\ DispatchToolsCall("add", a)) =>
              IF "add" \notin DOMAIN tools
              THEN last'.call.outcome.kind = "error"
              ELSE IF Parse(tools["add"].parameters, ArgsOrEmpty(a)).ok
                   THEN \E c \in Suspended : c.tool = tools["add"]
                   ELSE /\ last'.call.tool = tools["add"]
                        /\ last'.call.outcome.kind = "error"
      /\ (last'.op = "dispatch" /\ DispatchResourcesRead("data://x")) =>
              \/ "data://x" \notin DOMAIN resources
              \/ /\ resources["data://x"].read = "none"
                 /\ last'.call.outcome.value.contents[1].text =
                       resources["data://x"].text
                 /\ last'.call.outcome.value.contents[1].mimeType =
                       resources["data://x"].mimeType
              \/ \E c \in Suspended : c.resource = resources["data://x"]
      /\ (last'.op = "dispatch" /\ DispatchResourcesRead("u://a")) =>
              \/ resourceTemplates = << >>
              \/ \E c \in Suspended : c.template = resourceTemplates[1]
      /\ DispatchToolsList =>
           last'.call.outcome.value.tools =
              {[name |-> t.name, inputSchema |-> ZodToJsonSchema(t.parameters)] :
                 t \in {tools[k] : k \in DOMAIN tools}}
      /\ DispatchResourcesList =>
           last'.call.outcome.value.resources =
              {[uri |-> r.uri, name |-> r.name, mimeType |-> r.mimeType,
                annotations |-> r.annotations] :
                 r \in {resources[k] : k \in DOMAIN resources}}
      /\ DispatchResourcesTemplatesList =>
           /\ Len(last'.call.outcome.value.resourceTemplates) =
                 Len(resourceTemplates)
           /\ \A i \in DOMAIN resourceTemplates :
                 /\ last'.call.outcome.value.resourceTemplates[i].name =
                       resourceTemplates[i].name
                 /\ last'.call.outcome.value.resourceTemplates[i].uriTemplate =
                       resourceTemplates[i].uriTemplate
    ]_vars

\* tools/list answers while a tools/call still awaits the handler of the
\* definition that a later registration of the same name has replaced
C22_Witness ==
  /\ last.op = "dispatch"
  /\ last.call.method = "tools/list"
  /\ \E c \in BagToSet(inflight) :
        c.method = "tools/call" /\ c.tool # tools[c.name]
  /\ resources # << >>
  /\ resourceTemplates # << >>

\* C23: the activity list of an HTTP transport holds the entries recorded
\* since the last clear, most recent first, and at most the ActivityLogCap
\* most recent of them: whenever an entry is recorded into a full list, the
\* oldest one, and no other, is gone.
C23_ActivityLogBounded ==
  /\ Len(activityLog) <= ActivityLogCap
  /\ Len(activityLog) = Min({requestCount, ActivityLogCap})
  /\ \A i \in DOMAIN activityLog : activityLog[i].seq = requestCount - i + 1

\* the list is full, an entry has been evicted from it, and a further call
\* awaits its handler
C23_Witness ==
  /\ Len(activityLog) = ActivityLogCap
  /\ requestCount > ActivityLogCap
  /\ inflight # EmptyBag

\* this step is the handler of endpoint e finishing with a message whose id
\* is id: handleRequest settled, or the handler refused the message
Settled(e, session, id) ==
  /\ last'.op \in {"dispatch", "request"}
  /\ last'.op = "dispatch" => last'.call.method # ""
  /\ \/ RequestInvalidVersion(e, session, id)
     \/ RequestToolsCall(e, session, id, "add", NoArgs)
     \/ RequestOther(e, session, id, "prompts/list")
     \/ \E u \in {"", "data://x"} : RequestSubscribe(e, id, u, "")
     \/ \E c \in BagToSet(inflight) :
           \/ AnswerReturn(e, session, id, c, JSString("Hello"))
           \/ \E err \in AnsweredExceptions : AnswerThrow(e, session, id, c, err)

\* C24: a transport writes no JSON-RPC response, result or error, for a
\* message without an id, and exactly one for a message with an id.
C24_ResponseExactlyForRequestsWithId ==
  [][ \A e \in Endpoints, session \in BOOLEAN, id \in RequestIds :
        Settled(e, session, id) =>
           IF id = NoId THEN wrote' = << >> ELSE Len(wrote') = 1
    ]_vars

\* C25: the error response written for a request with id i whose dispatch
\* failed carries i and, for a typed protocol error, that error's code,
\* message and data; any other error is written as InternalError (-32603).
C25_ErrorResponseCarriesTheError ==
  [][ \A e \in Endpoints, session \in BOOLEAN, id \in RequestIds \ {NoId} :
        (/\ Settled(e, session, id)
         /\ last'.op = "dispatch"
         /\ last'.call.outcome.kind = "error"
         /\ wrote' # << >>) =>
           LET err == last'.call.outcome.error
           IN wrote' =
                IF err.cls = "MCPError"
                THEN << ErrorResponse(err.code, err.message, err.data, id) >>
                ELSE << ErrorResponse(ErrorCode.INTERNAL_ERROR, err.message,
                                      NoData, id) >>
    ]_vars

ReadThroughTemplate ==
  /\ last.op = "dispatch"
  /\ last.call.method = "resources/read"
  /\ last.call.outcome.kind = "result"
  /\ last.call.template # NoTemplate

\* a parameter that is one string
StringParam(name, text) ==
  [name |-> Chars(name), array |-> FALSE, values |-> << text >>]

\* the path segments of the URIs read, after the prefix files:///
PathSegments(uri) ==
  CASE uri = "files:///a/b/c" -> << << "a" >>, << "b" >>, << "c" >> >>
    [] uri = "files:///a"     -> << << "a" >> >>
    [] uri = "files:///a/%41" -> << << "a" >>, << "A" >> >>

\* C28: a variable with the explode modifier yields a sequence of strings,
\* the pieces of the captured text between the operator's separators, each
\* percent-decoded; files://{/path*} yields the path segments of the URI in
\* order.
C28_ExplodedCaptureYieldsSequence ==
  ReadThroughTemplate =>
    /\ last.call.template.uriTemplate = "files://{/path*}" =>
          last.call.params =
            << [name |-> Chars("path"), array |-> TRUE,
                values |-> PathSegments(last.call.uri)] >>
    /\ last.call.template.uriTemplate = "q://x{?list*}" =>
          /\ Len(last.call.params) = 1
          /\ last.call.params[1].name = Chars("list")
          /\ last.call.params[1].array

\* the exploded path segments alone
C28_PathSegments ==
  (ReadThroughTemplate /\ last.call.template.uriTemplate = "files://{/path*}") =>
     last.call.params =
       << [name |-> Chars("path"), array |-> TRUE,
           values |-> PathSegments(last.call.uri)] >>

C28_PathSegmentsWitness ==
  /\ ReadThroughTemplate
  /\ last.call.uri = "files:///a/b/c"

\* C29: for the operators ; ? and &, a capture that contains name=value
\* gives the percent-decoded text after its first '=', whatever the key
\* before it; search://{term}{?limit}{&offset} read at
\* search://hello?limit=10&offset=20 gives term hello, limit 10, offset 20.
C29_ValueAfterFirstEquals ==
  ReadThroughTemplate =>
    /\ last.call.uri = "search://hello?limit=10&offset=20" =>
          last.call.params =
            << StringParam("term", Chars("hello")),
               StringParam("limit", Chars("10")),
               StringParam("offset", Chars("20")) >>
    /\ last.call.uri = "search://hello?max=a=b&offset=" =>
          last.call.params =
            << StringParam("term", Chars("hello")),
               StringParam("limit", Chars("a=b")),
               StringParam("offset", << >>) >>
    /\ last.call.uri = "m://x;id=%41" =>
          last.call.params = << StringParam("id", << "A" >>) >>
    /\ last.call.uri = "m://x;a" =>
          last.call.params = << StringParam("id", << "a" >>) >>
    /\ last.call.uri = "q://x?list=a" =>
          last.call.params[1].values = << << "a" >> >>

\* the read of the example, and one whose key is not the variable's name and
\* whose value holds a second '='
C29_Witness ==
  /\ ReadThroughTemplate
  /\ last.call.uri = "search://hello?max=a=b&offset="
  /\ Len(resourceTemplates) = 4

\* the ledger after the step holds c under no URI
Withdrawn(c) == \A u \in Uris : c \notin GetSubscribers(subscriptions', u)

\* C30: once a WebSocket connection of the Node transport has ended, by a
\* close of the client, after an error of the socket or by close() of the
\* transport, the subscription ledger holds its client id under no URI.
C30_ClosedConnectionLeavesNoSubscription ==
  [][ \A c \in DOMAIN wsClients :
         c \notin DOMAIN wsClients' => Withdrawn(c) ]_vars

\* the same for the connections a client closes
C30_ClientClose ==
  [][ \A c \in DOMAIN wsClients :
         (last'.op = "ws close" /\ c \notin DOMAIN wsClients') => Withdrawn(c)
    ]_vars

\* how many writes of the last step went to connection c
TimesWritten(c) ==
  Cardinality({i \in DOMAIN last.writes : last.writes[i] = c})

\* C31: the notification callback of an HTTP transport writes a targeted
\* notification at most once to each connection whose id is in the target
\* set and never to another one or to an id that is not connected; a
\* broadcast is written at most once to every connection.
C31_AtMostOncePerConnectedTarget ==
  (last.op \in {"notify", "notifyTargeted"} /\ transport \in Transports) =>
    \A i \in DOMAIN ClientIds :
       /\ TimesWritten(ClientIds[i]) <= 1
       /\ TimesWritten(ClientIds[i]) = 1 =>
            /\ ClientIds[i] \in DOMAIN wsClients \cup sseClients
            /\ last.op = "notifyTargeted" =>
                 /\ ~last.given.targets.null
                 /\ ClientIds[i] \in last.given.targets.ids

\* a targeted notification written to one of two connections, the other not
\* being a target
C31_Witness ==
  /\ last.op = "notifyTargeted"
  /\ last.given.targets = Targeted({"client-2"})
  /\ last.writes = << "client-2" >>
  /\ "client-1" \in DOMAIN wsClients \cup sseClients

\* a broadcast written to a WebSocket and to an SSE stream
C31_BroadcastWitness ==
  /\ last.op = "notify"
  /\ Len(last.writes) = 2
  /\ wsClients # << >>
  /\ sseClients # {}

\* a tools/call POSTed with an id for a session whose stream was found, and
\* settled in the last step
SessionRequestSettled ==
  /\ last.op = "dispatch"
  /\ last.call.method = "tools/call"
  /\ last.call.session # ""
  /\ last.call.requestId # NoId

\* C32: a request with an id POSTed to /message?sessionId=S of the Bare
\* transport gets exactly one message with that id, its result or its error,
\* on the stream of S, written while that stream is still a connected
\* client, also when the stream disconnects during the dispatch.
C32_ResponseOnRegisteredStream ==
  SessionRequestSettled =>
    /\ Len(wrote) = 1
    /\ wrote[1].id = last.call.requestId
    /\ last.call.session \in sseClients

\* the one message alone, wherever the stream is by then
C32_OneResponse ==
  SessionRequestSettled =>
    /\ Len(wrote) = 1
    /\ wrote[1].id = last.call.requestId
    /\ wrote[1].kind = IF last.call.outcome.kind = "result" THEN "result"
                       ELSE "error"

C32_OneResponseWitness ==
  /\ SessionRequestSettled
  /\ last.call.outcome.kind = "error"
  /\ last.call.session \in sseClients

\* the tools/call c, in flight before the step, settled in it
SettledInStep(c) ==
  /\ c.method = "tools/call"
  /\ last'.op = "dispatch"
  /\ last'.call.method = "tools/call"
  /\ inflight' = inflight (-) SetToBag({c})

\* a tools/call is bound to the definition registered when it is dispatched,
\* and settles with that definition and the input its handler was given
\* whatever was registered under the name in between
BoundAtDispatch ==
  /\ \A c \in Suspended : c.method = "tools/call" => c.tool = tools[c.name]
  /\ \A c \in BagToSet(inflight) :
        SettledInStep(c) =>
          /\ last'.call.tool = c.tool
          /\ last'.call.invokedWith = c.invokedWith
          /\ last'.call.name = c.name

\* C33: a tools/call uses the tool definition registered at the moment it is
\* dispatched: registered again under the same name while the call awaits
\* its handler, the call still settles with the definition it started with
\* and hands one activity entry to the callback; calls dispatched later use
\* the new definition.
C33_CallBindsToolAtDispatch ==
  [][ /\ BoundAtDispatch
      /\ \A c \in BagToSet(inflight) :
            SettledInStep(c) => Len(last'.call.handed) = 1
    ]_vars

\* the binding alone
C33_Binding == [][BoundAtDispatch]_vars

\* a call that settled after its tool was registered again with another
\* handler
C33_BindingWitness ==
  /\ last.op = "dispatch"
  /\ last.call.method = "tools/call"
  /\ last.call.settled.kind = "result"
  /\ "add" \in DOMAIN tools
  /\ tools["add"].execute # last.call.tool.execute

\* the URIs whose ledger entry holds c
SubscribedUris(c) == {u \in Uris : c \in GetSubscribers(subscriptions, u)}

\* C34: in the Node HTTP transport the subscription set tracked for a
\* connected WebSocket client is the set of URIs whose ledger entry holds
\* the client's id, after any subscribe and unsubscribe requests, successful
\* or not, on any connections.
C34_TrackedSubscriptionsMatchLedger ==
  transport = "http" =>
    \A c \in DOMAIN wsClients : wsClients[c].subscriptions = SubscribedUris(c)

\* a connected client with a tracked subscription, another connection open
C34_TrackedWitness ==
  /\ transport = "http"
  /\ \E c \in DOMAIN wsClients : wsClients[c].subscriptions # {}
  /\ Cardinality(DOMAIN wsClients) = 2

\* C35: when no reader raises, a read of any URI either returns the content
\* {uri, mimeType, text} or fails with ResourceNotFound (-32002); a URI
\* whose captured text is not validly percent-encoded has one of these two
\* outcomes as well.
C35_ReadReturnsContentOrNotFound ==
  (/\ last.op = "dispatch"
   /\ last.call.method = "resources/read"
   /\ last.call.uri # ""
   /\ last.call.outcome.kind = "error"
   /\ last.call.outcome.error \notin ReaderExceptions) =>
     last.call.outcome.error = ResourceNotFound(last.call.uri)

\* the text a read gives for the value raw of a reader
ExpectedText(raw) ==
  CASE raw = RawString("dynamic")       -> "dynamic"
    [] raw = RawText("fresh", "none")    -> "fresh"
    [] raw = RawText("fresh", "perRead") -> "fresh"
    [] raw = RawObject("uptime")         -> "{\"uptime\":5}"
    [] raw = RawNull                     -> "null"

\* the annotations a value carries, "none" when it carries none
CarriedAnnotations(raw) ==
  IF raw = RawText("fresh", "perRead") THEN "perRead" ELSE "none"

OtherEntriesUnchanged(u) ==
  \A v \in Uris \ {u} :
     /\ (v \in DOMAIN subscriptions') = (v \in DOMAIN subscriptions)
     /\ GetSubscribers(subscriptions', v) = GetSubscribers(subscriptions, v)

\* C37: subscribe(u, s) and unsubscribe(u, s), called directly or through
\* resources/subscribe and resources/unsubscribe, change at most the ledger
\* entry of u and no registry; getSubscribers(u) returns the set of u, the
\* empty set for a URI without an entry, and makes no entry; and
\* resources/subscribe succeeds for every non-empty URI, with or without a
\* resource registered there.
C37_LedgerOperationsTouchOneEntry ==
  [][ /\ \A u \in Uris, id \in Subscribers :
           (/\ last'.op \in {"subscribe", "unsubscribe"}
            /\ Subscribe(u, id) \/ Unsubscribe(u, id)) =>
              (OtherEntriesUnchanged(u) /\ RegistriesUnchanged)
      /\ \A u \in UriInputs, sid \in SubscriberIdInputs :
           (/\ last'.op = "dispatch"
            /\ \/ DispatchResourcesSubscribe(u, sid)
               \/ DispatchResourcesUnsubscribe(u, sid)) =>
              (OtherEntriesUnchanged(u) /\ RegistriesUnchanged)
      /\ \A u \in Uris, sid \in SubscriberIdInputs :
           (last'.op = "dispatch" /\ DispatchResourcesSubscribe(u, sid)) =>
              /\ last'.call.outcome = Returned(EmptyResult)
              /\ (IF sid = "" THEN "default" ELSE sid)
                    \in GetSubscribers(subscriptions', u)
      /\ \A u \in Uris :
           (last'.op = "getSubscribers" /\ last'.uri = u) =>
              /\ subscriptions' = subscriptions
              /\ RegistriesUnchanged
              /\ last'.subscribers =
                   IF u \in DOMAIN subscriptions THEN subscriptions[u] ELSE {}
    ]_vars

\* resources/subscribe succeeded for a URI at which no resource is
\* registered, another URI having a resource and subscribers
C37_Witness ==
  /\ last.op = "dispatch"
  /\ last.call.method = "resources/subscribe"
  /\ last.call.outcome.kind = "result"
  /\ last.call.uri = "data://y"
  /\ DOMAIN resources = {"data://x"}
  /\ "data://x" \in DOMAIN subscriptions
  /\ tools # << >>

\* getSubscribers asked for a URI without an entry
C37_EmptyWitness ==
  /\ last.op = "getSubscribers"
  /\ last.uri \notin DOMAIN subscriptions
  /\ subscriptions # << >>

ReadOnlyMethods ==
  {"initialize", "tools/list", "resources/list", "resources/templates/list",
   "resources/read", "ping"}

\* the step is a dispatch of one of the read-only methods, or the
\* continuation of a resources/read after its reader settled
ReadOnlyStep ==
  /\ last'.op = "dispatch"
  /\ \/ last'.call.method \in ReadOnlyMethods
     \/ last'.call.method = "" /\ \E c \in Suspended : c.method = "resources/read"

\* C38: a dispatch of initialize, tools/list, resources/list,
\* resources/templates/list, resources/read or ping leaves the tool, resource
\* and template registries and the subscription ledger as they were, hands
\* no entry to the activity callback and invokes no notification callback,
\* whatever was registered, subscribed or called before.
C38_ReadOnlyMethodsChangeNothing ==
  [][ ReadOnlyStep =>
        /\ RegistriesUnchanged
        /\ subscriptions' = subscriptions
        /\ last'.call.handed = << >>
        /\ \A c \in Suspended : c.handed = << >>
        /\ last'.delivered = << >>
        /\ UNCHANGED << onActivity, onNotification, activityVars >>
    ]_vars

\* a ping answered with tools, resources, templates and subscriptions present
\* and a tools/call in flight
C38_Witness ==
  /\ last.op = "dispatch"
  /\ last.call.method = "ping"
  /\ tools # << >>
  /\ resources # << >>
  /\ resourceTemplates # << >>
  /\ subscriptions # << >>
  /\ inflight # EmptyBag

\* what the transport has done had the whole input arrived as one chunk
ReadAsOneChunk ==
  DrainLines(ChunkToString(stdin.received \o stdin.pending, 1), NoLines)

NonBlank(lines) == SelectSeq(lines, LAMBDA line : Trim(line) # << >>)

\* the lines processed are those of the input read as one chunk, one for each
\* newline received and in that order, and what follows the last newline is
\* in the buffer
LinesOfTheBytes ==
  LET whole == ReadAsOneChunk
      n == Len(processed.lines)
  IN /\ n = Cardinality(PositionsFrom(stdin.received, "LF", 1))
     /\ n <= Len(whole.processed.lines)
     /\ processed.lines = SubSeq(whole.processed.lines, 1, n)
     /\ stdin.pending = << >> => buffer = whole.buffer

\* each line that is not blank gets one line of output, a blank line none
OneOutputPerLine ==
  processed.awaiting + processed.written = Len(NonBlank(processed.lines))

\* C39: in the Bare stdio transport the lines processed depend only on the
\* bytes received, not on how they arrive in chunks: a line is processed once,
\* when its newline has arrived, the text after the last newline is kept for
\* the next chunk, a blank line produces no output and any other complete
\* line produces exactly one line of output
C39_LinesDependOnlyOnBytes ==
  transport = "stdio-bare" => LinesOfTheBytes /\ OneOutputPerLine

\* C39, for an input of one-byte characters: the same, whatever the chunks
C39_SingleByteInput ==
  (transport = "stdio-bare"
   /\ \A i \in 1..Len(stdin.received \o stdin.pending) :
        (stdin.received \o stdin.pending)[i] \notin {"C3", "A9"})
  => LinesOfTheBytes /\ OneOutputPerLine

\* an input of one-byte characters that arrived in more than one chunk, with
\* a line that was cut by the end of a chunk, a blank line and a tail
C39_SingleByteWitness ==
  /\ transport = "stdio-bare"
  /\ stdin = [received |-> << "x", "LF", "LF", "x" >>, pending |-> << >>]
  /\ processed.lines = << << "x" >>, << >> >>
  /\ processed.written = 1
  /\ buffer = << "x" >>

====
